---- MODULE Spec2Model ----
(***************************************************************************)
(* Model of the batch protocol engine of rgmail:                           *)
(* GMail::messages_get_common (src/src/gmail.rs), which posts one          *)
(* multipart batch request, decodes the multipart response into parts,     *)
(* parses the HTTP response embedded in every part, classifies it and      *)
(* returns either the list of outcomes or an error.                        *)
(*                                                                         *)
(* A response part is modelled by the facts the code reads from it: the    *)
(* two MIME headers of the part, the verdict of httparse on the part body, *)
(* the embedded status, the embedded content-type and content-length       *)
(* headers, the number of body bytes after the embedded header block and   *)
(* the JSON document those bytes hold.                                     *)
(*                                                                         *)
(* The module holds three more models.  ParseSpec is multipart_parse       *)
(* (src/src/multipart.rs) byte by byte, one iteration of its loops per     *)
(* step, run on the request bodies messages_get_common builds and on       *)
(* sample responses, whole, cut short or with one byte replaced.           *)
(* StreamSpec is the paged streams Messages and History: poll_next of      *)
(* src/src/messages.rs and src/src/history.rs and the blocking next of     *)
(* src/src/gmail.rs, with a server that holds a listing and answers every  *)
(* page request with the page of the token or an error.  GateSpec is the   *)
(* token gate GAuth (src/src/gauth.rs) shared by concurrent callers.       *)
(***************************************************************************)
EXTENDS Integers, Sequences, FiniteSets, TLC

(* Bounds of the model. *)
MaxIds == 2
MaxParts == 2

(* ids:   the parameter ids, the ordered list of requested message ids.    *)
(* mp:    mp.parts, the parts of the response the loop has read so far.    *)
(* out:   the local vector out of outcomes.                                *)
(* idlog: the value of the local id in every iteration that gave an        *)
(*        outcome.                                                         *)
(* pc:    "call" before the response is decoded, "loop" in the loop over   *)
(*        the parts, "done" after the return.                              *)
(* ret:   the value returned to the caller.                                *)
VARIABLES ids, mp, out, idlog, pc, ret

(* State of multipart_parse (src/src/multipart.rs).                        *)
(* data, boundary: the two parameters.                                     *)
(* scan:   the local s of the first loop (Rest, Part, PartOrEnd).          *)
(* pos:    the local pos of the first loop, counted from 0 as in the code. *)
(* acc:    the local acc, the bytes of the part being collected.           *)
(* parts:  the local vector parts of part candidates.                      *)
(* pidx:   the position of the loop "for part in parts", from 1.           *)
(* pstate: the local s of the loop over one part (Header .. Body).         *)
(* ppos:   the local pos of the loop over one part, from 0.                *)
(* hdr:    the header line being collected.                                *)
(* hdrs:   the header lines of the part collected so far.                  *)
(* mpout:  mp.parts, the decoded parts.                                    *)
(* mpc:    "scan" in the first loop, "part" in the loop over the parts,    *)
(*         "done" after the return or the panic, "idle" when the function  *)
(*         is not running.                                                 *)
(* mres:   the outcome: Ok(mp), an error value, or a panic.                *)
VARIABLES data, boundary, scan, pos, acc, parts, pidx, pstate, ppos, hdr,
          hdrs, mpout, mpc, mres

(* State of a stream of pages: Messages and History of src/src/messages.rs *)
(* and src/src/history.rs (poll_next) and of src/src/gmail.rs (next).      *)
(* skind:  "Messages" or "History".                                        *)
(* api:    "async" for the Stream of messages.rs and history.rs,           *)
(*         "blocking" for the Iterator of gmail.rs.                        *)
(* fin, previous_token, page_token, infl, final_id, fetch: the fields of   *)
(*         the struct.  An Option is a sequence of length 0 or 1.  History *)
(*         has no previous_token and Messages no final_id: they stay None. *)
(*         The blocking structs have no fetch: it stays None.              *)
(* spc:    "idle" between two calls of next, "loop" at the head of the     *)
(*         loop of a call.                                                 *)
(* sres:   the value the last call returned.                               *)
(* flog:   the calls of fetch_page so far, each with its page_token        *)
(*         argument and its outcome.                                       *)
(* fetched: the items of the pages taken from the server, in order.        *)
(* delivered: the items returned to the caller, in order.                  *)
(* server: the listing the server holds: the number of items of every      *)
(*         page, from the first page (page 0) on.                          *)
(* gen:    0 for the stream the caller started first, 1 for the stream     *)
(*         the caller started from resume_token() of the first.            *)
(* owed:   the items the first stream had not delivered when the second    *)
(*         was started.                                                    *)
VARIABLES skind, api, fin, previous_token, page_token, infl, final_id, fetch,
          spc, sres, flog, fetched, delivered, server, gen, owed

(* The token gate: the fields of GAuthInner, the clock, the build, and for   *)
(* every caller its position in an operation, the expiry it read, the      *)
(* events of its operation; the operations started, the last lifetime      *)
(* the server declared and when.                                           *)
VARIABLES refresh_token, access_token, expiry, now, build, cpc, cet, clog,
          ops, granted

bvars == <<ids, mp, out, idlog, pc, ret>>

gvars == <<refresh_token, access_token, expiry, now, build, cpc, cet, clog,
           ops, granted>>

svars == <<skind, api, fin, previous_token, page_token, infl, final_id, fetch,
           spc, sres, flog, fetched, delivered, server, gen, owed>>

pvars == <<data, boundary, scan, pos, acc, parts, pidx, pstate, ppos, hdr,
           hdrs, mpout, mpc, mres>>

vars == <<bvars, pvars, svars, gvars>>

(* No GAuth is in use. *)
GateIdle ==
    /\ refresh_token = 0
    /\ access_token = 0
    /\ expiry = << >>
    /\ now = 0
    /\ build = "release"
    /\ cpc = << >>
    /\ cet = << >>
    /\ clog = << >>
    /\ ops = 0
    /\ granted = << >>

(* No stream has been started. *)
StreamIdle ==
    /\ skind = "Messages"
    /\ api = "async"
    /\ fin = FALSE
    /\ previous_token = << >>
    /\ page_token = << >>
    /\ infl = << >>
    /\ final_id = << >>
    /\ fetch = << >>
    /\ spc = "idle"
    /\ sres = [tag |-> "none"]
    /\ flog = << >>
    /\ fetched = << >>
    /\ delivered = << >>
    /\ server = << >>
    /\ gen = 0
    /\ owed = << >>

(* multipart_parse is not running. *)
ParseIdle ==
    /\ data = << >>
    /\ boundary = << >>
    /\ scan = "Rest"
    /\ pos = 0
    /\ acc = << >>
    /\ parts = << >>
    /\ pidx = 0
    /\ pstate = "Header"
    /\ ppos = 0
    /\ hdr = << >>
    /\ hdrs = << >>
    /\ mpout = << >>
    /\ mpc = "idle"
    /\ mres = [tag |-> "none"]

----------------------------------------------------------------------------
(* Input domains *)

(* Message ids are opaque strings in the code; here they are 1..MaxIds.    *)
MsgIds == 1..MaxIds

(* The id lists a caller can pass: distinct ids, any order, any length up  *)
(* to MaxIds (the empty list included).                                    *)
IdLists ==
    {s \in UNION {[1..k -> MsgIds] : k \in 0..MaxIds} :
        \A i, j \in DOMAIN s : i # j => s[i] # s[j]}

(* Values of the part header content-type (p.headers.get("content-type")). *)
OuterTypes == {"none", "application/http", "text/plain", "unparseable"}

(* Values of the part header content-id.  form "num" is response-req-{n},  *)
(* with {n} any text that str::parse::<usize> reads as n; "nonnum" is      *)
(* response-req- followed by text that it rejects; "other" is a value      *)
(* without the prefix response-req- (such as req-{n}); "none" is a part    *)
(* without the header.                                                     *)
CidForms == {"none", "other", "nonnum", "num"}
Cids == [form : CidForms, n : 0..MaxIds]
NumCids == [form : {"num"}, n : 0..MaxIds]

(* Entries of the errors array of an error document (struct EEE).          *)
UU == [domain |-> "usageLimits", reason |-> "userRateLimitExceeded"]
UR == [domain |-> "usageLimits", reason |-> "rateLimitExceeded"]
GU == [domain |-> "global", reason |-> "userRateLimitExceeded"]
UD == [domain |-> "usageLimits", reason |-> "dailyLimitExceeded"]
GN == [domain |-> "global", reason |-> "notFound"]

ErrLists == {<< >>, <<UU>>, <<UR>>, <<GU>>, <<UD>>, <<GN>>, <<UD, UU>>, <<GN, UR>>}

(* The JSON document in the body of an embedded response: bytes that are   *)
(* no JSON of either shape ("garbage"), an error document (struct E) or a  *)
(* message document (the payload type T, of which only id() is read).      *)
Garbage == [kind |-> "garbage", errors |-> << >>, id |-> 0]
ErrDoc(l) == [kind |-> "error", errors |-> l, id |-> 0]
MsgDoc(m) == [kind |-> "msg", errors |-> << >>, id |-> m]
Docs == {Garbage} \cup {ErrDoc(l) : l \in ErrLists} \cup {MsgDoc(m) : m \in MsgIds}

(* Body lengths, in bytes. *)
Lens == {48, 50}

(* The embedded content-length header: absent, not a number, or a number.  *)
NoLen == [k |-> "none", v |-> 0]
BadLen == [k |-> "bad", v |-> 0]
NumLen(v) == [k |-> "num", v |-> v]
CLens == {NoLen, BadLen} \cup {NumLen(v) : v \in Lens}

(* The embedded content-type header: absent, bytes that are no UTF-8, text *)
(* that is no media type, or a media type.                                 *)
CTypes == {"none", "nonutf8", "unparseable", "application/json", "text/html"}

Statuses == {200, 404, 429, 403, 500}

(* What httparse makes of a part body: an error, a partial response (the   *)
(* header block does not end inside the part) or a complete response.      *)
NoInner(h) ==
    [http |-> h, status |-> 0, ct |-> "none", cl |-> NoLen, blen |-> 0, doc |-> Garbage]
Complete(st, ct, cl, blen, doc) ==
    [http |-> "complete", status |-> st, ct |-> ct, cl |-> cl, blen |-> blen, doc |-> doc]
Inners ==
    {NoInner("error"), NoInner("partial")} \cup
    [http : {"complete"}, status : Statuses, ct : CTypes, cl : CLens, blen : Lens,
     doc : Docs]

(* Well-formed embedded responses, as the server sends them.               *)
CoreInners ==
    {Complete(200, "application/json", NumLen(50), 50, MsgDoc(m)) : m \in MsgIds} \cup
    {Complete(404, "application/json", NumLen(50), 50, ErrDoc(<<GN>>)),
     Complete(429, "application/json", NumLen(50), 50, ErrDoc(<<UR>>)),
     Complete(403, "application/json", NumLen(50), 50, ErrDoc(<<UU>>)),
     Complete(500, "text/html", NumLen(48), 48, Garbage)}

CoreParts == [octype : {"application/http"}, cid : NumCids, inner : CoreInners]

(* Every part of the model: every embedded response under well-formed part *)
(* headers, and every combination of part headers over the well-formed     *)
(* embedded responses.                                                     *)
AllParts ==
    [octype : {"application/http"}, cid : NumCids, inner : Inners] \cup
    [octype : OuterTypes, cid : Cids, inner : CoreInners]

(* The responses of the model: any single part, or up to MaxParts          *)
(* well-formed parts in any order and with any Content-IDs.                *)
InResponses(r) ==
    /\ Len(r) <= MaxParts
    /\ \/ Len(r) = 1 /\ r[1] \in AllParts
       \/ \A i \in 1..Len(r) : r[i] \in CoreParts

----------------------------------------------------------------------------
(* Results *)

Present(m) == [v |-> "Present", id |-> m]
Missing(i) == [v |-> "Missing", id |-> i]
RateLimit(i) == [v |-> "RateLimit", id |-> i]

(* An error: its message, and the status and the id it names (0: none).    *)
Error(m, st, i) == [msg |-> m, status |-> st, id |-> i]

NoRet == [tag |-> "none", val |-> << >>, err |-> Error("", 0, 0)]
Ok(v) == [tag |-> "Ok", val |-> v, err |-> Error("", 0, 0)]
Err(e) == [tag |-> "Err", val |-> << >>, err |-> e]

(* Result of one step of the loop over the parts. *)
Push(o, i) == [tag |-> "push", o |-> o, id |-> i, err |-> Error("", 0, 0)]
Fail(e) == [tag |-> "err", o |-> Missing(0), id |-> 0, err |-> e]
Pass(i) == [tag |-> "pass", o |-> Missing(0), id |-> i, err |-> Error("", 0, 0)]

----------------------------------------------------------------------------
(* messages_get_common, one part of the response *)

(* The part must be of type application/http. *)
CheckPartType(t) ==
    IF t = "none" THEN Fail(Error("content type missing from response part", 0, 0))
    ELSE IF t = "unparseable" THEN Fail(Error("mime parse error", 0, 0))
    ELSE IF t # "application/http"
        THEN Fail(Error("response part had wrong type", 0, 0))
    ELSE Pass(0)

(* Correlate without the test for the prefix response-req-: the number in  *)
(* any Content-ID is taken as n.                                           *)
CorrelateNoPrefix(cid, idl) ==
    IF cid.form = "none"
        THEN Fail(Error("content type missing from response part", 0, 0))
    ELSE IF cid.form = "nonnum" THEN Fail(Error("ParseIntError", 0, 0))
    ELSE IF cid.n < Len(idl) THEN Pass(idl[cid.n + 1])
    ELSE Fail(Error("content id invalid in response part", 0, 0))

(* let id = ...: the sub-request the part answers.  n counts from 0, the   *)
(* sequence idl from 1.  The message for a missing Content-ID is the one   *)
(* the code gives.                                                         *)
Correlate(cid, idl) ==
    IF cid.form = "none"
        THEN Fail(Error("content type missing from response part", 0, 0))
    ELSE IF cid.form = "other"
        THEN Fail(Error("content id invalid in response part", 0, 0))
    ELSE IF cid.form = "nonnum" THEN Fail(Error("ParseIntError", 0, 0))
    ELSE IF cid.n < Len(idl) THEN Pass(idl[cid.n + 1])
    ELSE Fail(Error("content id invalid in response part", 0, 0))

(* parser.parse(&p.body)? and res.is_complete() *)
ParseResponse(inner) ==
    IF inner.http = "error" THEN Fail(Error("httparse error", 0, 0))
    ELSE IF inner.http = "partial"
        THEN Fail(Error("response part response incomplete", 0, 0))
    ELSE Pass(0)

(* The loop over the embedded headers, and the test that both were seen.   *)
Headers(inner) ==
    IF inner.ct = "nonutf8" \/ inner.cl.k = "bad"
        THEN Fail(Error("embedded header value invalid", 0, 0))
    ELSE IF inner.ct = "none" \/ inner.cl.k = "none"
        THEN Fail(Error("headers missing from response part response", 0, 0))
    ELSE Pass(0)

(* QuotaMatch without the test of the reason. *)
QuotaMatchDomainOnly(ee) == ee.domain = "usageLimits"

(* The test on one entry of error.errors. *)
QuotaMatch(ee) == ee.domain = "usageLimits" /\ ee.reason = "userRateLimitExceeded"

(* if status != 200 { ... }: a 403 that is a quota error is a rate limit,  *)
(* every other status is an error naming the status and the id.            *)
NotOk(st, doc, id) ==
    IF st = 403 /\ doc.kind # "error"
        THEN Fail(Error("could not parse 403", 0, 0))
    ELSE IF st = 403 /\ \E i \in 1..Len(doc.errors) : QuotaMatch(doc.errors[i])
        THEN Push(RateLimit(id), id)
    ELSE Fail(Error("inner response part had wrong status", st, id))

(* Classify without the branch for 404. *)
ClassifyNo404(st, doc, id) ==
    IF st = 429 THEN Push(RateLimit(id), id)
    ELSE IF st # 200 THEN NotOk(st, doc, id)
    ELSE Pass(id)

(* Classify with the test status != 200 narrowed to status == 403. *)
ClassifyOnly403(st, doc, id) ==
    IF st = 404 THEN Push(Missing(id), id)
    ELSE IF st = 429 THEN Push(RateLimit(id), id)
    ELSE IF st = 403 THEN NotOk(st, doc, id)
    ELSE Pass(id)

(* The branches on the embedded status: an outcome, an error, or (status   *)
(* 200) on to the payload.                                                 *)
Classify(st, doc, id) ==
    IF st = 404 THEN Push(Missing(id), id)
    ELSE IF st = 429 THEN Push(RateLimit(id), id)
    ELSE IF st # 200 THEN NotOk(st, doc, id)
    ELSE Pass(id)

(* Payload without the test of the media type. *)
PayloadNoType(inner, id) ==
    IF inner.cl.v # inner.blen
        THEN Fail(Error("response part body len not what we expected", 0, 0))
    ELSE IF inner.doc.kind # "msg" THEN Fail(Error("serde_json error", 0, 0))
    ELSE Push(Present(inner.doc.id), id)

(* A 200 response: media type, length, deserialisation. *)
Payload(inner, id) ==
    IF inner.ct = "unparseable" THEN Fail(Error("mime parse error", 0, 0))
    ELSE IF inner.ct # "application/json"
        THEN Fail(Error("response part response had wrong type", 0, 0))
    ELSE IF inner.cl.v # inner.blen
        THEN Fail(Error("response part body len not what we expected", 0, 0))
    ELSE IF inner.doc.kind # "msg" THEN Fail(Error("serde_json error", 0, 0))
    ELSE Push(Present(inner.doc.id), id)

(* One iteration of for p in &mp.parts. *)
HandlePart(p, idl) ==
    LET a == CheckPartType(p.octype)
        b == Correlate(p.cid, idl)
        c == ParseResponse(p.inner)
        d == Headers(p.inner)
        e == Classify(p.inner.status, p.inner.doc, b.id)
    IN  IF a.tag = "err" THEN a
        ELSE IF b.tag = "err" THEN b
        ELSE IF c.tag = "err" THEN c
        ELSE IF d.tag = "err" THEN d
        ELSE IF e.tag # "pass" THEN e
        ELSE Payload(p.inner, b.id)

(* The checks after the loop. *)
FinalCheck(o, idl) ==
    IF Len(o) # Len(idl) THEN Err(Error("did not get enough messages", 0, 0))
    ELSE IF \E j \in 1..Len(o) : \A i \in 1..Len(idl) : o[j].id # idl[i]
        THEN Err(Error("message missing from response", 0, 0))
    ELSE Ok(o)

----------------------------------------------------------------------------
(* The batch call *)

(* What can end the call before the loop over the parts. *)
CallFailures ==
    {"check_refresh", "send", "content type missing from response",
     "content type missing boundary", "multipart_parse"}

Init ==
    /\ ids \in IdLists
    /\ mp = << >>
    /\ out = << >>
    /\ idlog = << >>
    /\ pc = "call"
    /\ ret = NoRet
    /\ ParseIdle
    /\ StreamIdle
    /\ GateIdle

(* Token check, request, response headers, multipart_parse. *)
Call ==
    /\ pc = "call"
    /\ \/ /\ pc' = "loop"
          /\ ret' = ret
       \/ \E f \in CallFailures :
            /\ pc' = "done"
            /\ ret' = Err(Error(f, 0, 0))
    /\ UNCHANGED <<ids, mp, out, idlog>>
    /\ UNCHANGED <<pvars, svars, gvars>>

(* The parts the response can hold after the parts r. *)
NextParts(r) ==
    {p \in (IF r = << >> THEN AllParts ELSE CoreParts) : InResponses(Append(r, p))}

(* ProcessPart with a part that raises an error skipped instead of ending  *)
(* the call.                                                               *)
ProcessPartSkip ==
    /\ pc = "loop"
    /\ \E p \in NextParts(mp) :
        LET r == HandlePart(p, ids) IN
        /\ mp' = Append(mp, p)
        /\ IF r.tag = "err"
            THEN UNCHANGED <<out, idlog>>
            ELSE /\ out' = Append(out, r.o)
                 /\ idlog' = Append(idlog, r.id)
    /\ UNCHANGED <<ids, pc, ret>>
    /\ UNCHANGED <<pvars, svars, gvars>>

(* One iteration of the loop.  mp holds the parts read so far: the loop    *)
(* reads the parts in order and never looks ahead, so the next part is     *)
(* drawn when it is read.                                                  *)
ProcessPart ==
    /\ pc = "loop"
    /\ \E p \in NextParts(mp) :
        LET r == HandlePart(p, ids) IN
        /\ mp' = Append(mp, p)
        /\ IF r.tag = "err"
            THEN /\ pc' = "done"
                 /\ ret' = Err(r.err)
                 /\ UNCHANGED <<out, idlog>>
            ELSE /\ out' = Append(out, r.o)
                 /\ idlog' = Append(idlog, r.id)
                 /\ UNCHANGED <<pc, ret>>
    /\ UNCHANGED ids
    /\ UNCHANGED <<pvars, svars, gvars>>

(* The response has no further part: the final checks and the return. *)
Finish ==
    /\ pc = "loop"
    /\ pc' = "done"
    /\ ret' = FinalCheck(out, ids)
    /\ UNCHANGED <<ids, mp, out, idlog>>
    /\ UNCHANGED <<pvars, svars, gvars>>

Next == Call \/ ProcessPart \/ Finish

Spec == Init /\ [][Next]_vars

----------------------------------------------------------------------------
(* Vocabulary of the properties *)

(* The part passed the part-level checks and holds a complete embedded     *)
(* response: it has a correlated id and an embedded status.                *)
WellFramed(p) ==
    /\ p.octype = "application/http"
    /\ p.cid.form = "num"
    /\ p.cid.n < Len(ids)
    /\ p.inner.http = "complete"

(* The embedded response has a content-type and a content-length header    *)
(* whose values decode.                                                    *)
HasHeaders(p) ==
    /\ p.inner.ct \notin {"none", "nonutf8"}
    /\ p.inner.cl.k = "num"

(* The id the Content-ID of a well-framed part points at. *)
IdOf(p) == ids[p.cid.n + 1]

(* Part i produced an outcome and the loop went on. *)
Accepted(i) == i <= Len(out)

(* The call returned an error while handling part i, which produced no     *)
(* outcome.                                                                *)
FailedAt(i) ==
    /\ i = Len(mp)
    /\ Len(out) = i - 1
    /\ pc = "done"
    /\ ret.tag = "Err"

(* A quota entry, in the words of the specification. *)
IsQuotaEntry(ee) ==
    /\ ee.domain = "usageLimits"
    /\ ee.reason \in {"userRateLimitExceeded", "rateLimitExceeded"}

HasQuotaEntry(doc) ==
    doc.kind = "error" /\ \E k \in 1..Len(doc.errors) : IsQuotaEntry(doc.errors[k])

Returned == pc = "done" /\ ret.tag = "Ok"

----------------------------------------------------------------------------
(* Properties *)

(* C1: a successful result for K ids holds exactly K outcomes and every    *)
(* requested id is carried by exactly one of them, whatever parts and      *)
(* Content-IDs the response holds.  The responses considered carry in      *)
(* every payload the id the part is correlated with.                       *)
C1_ExactlyOnce ==
    (Returned /\ \A i \in 1..Len(out) : out[i].id = idlog[i]) =>
        /\ Len(ret.val) = Len(ids)
        /\ \A k \in 1..Len(ids) :
            Cardinality({j \in 1..Len(ret.val) : ret.val[j].id = ids[k]}) = 1

(* C2: a successful result is in request order: the outcome at position i  *)
(* carries ids[i], whatever the order of the parts in the response.  The   *)
(* responses considered answer every sub-request once and carry in every   *)
(* payload the id the part is correlated with, so that only the order of   *)
(* the parts is left open.                                                 *)
C2_RequestOrder ==
    ( /\ Returned
      /\ \A i, j \in 1..Len(mp) : i # j => mp[i].cid.n # mp[j].cid.n
      /\ \A i \in 1..Len(out) : out[i].id = idlog[i] )
    => \A i \in 1..Len(ret.val) : ret.val[i].id = ids[i]

(* C3: the call is all-or-nothing: nothing is delivered while the call     *)
(* runs, and when the call or any part of the response raised an error the *)
(* call returns an error that carries no outcome, also when earlier parts  *)
(* were classified; a successful result holds one outcome per part.        *)
C3_AllOrNothing ==
    /\ pc # "done" => ret = NoRet
    /\ ( pc = "done" /\ \E i \in 1..Len(mp) : HandlePart(mp[i], ids).tag = "err" )
        => ret.tag = "Err" /\ ret.val = << >>
    /\ Returned => ret.val = out /\ Len(out) = Len(mp)

C3_Witness ==
    /\ pc = "done"
    /\ Len(mp) = 2
    /\ Len(out) = 1
    /\ HandlePart(mp[2], ids).tag = "err"
    /\ ret.tag = "Err"

(* C4 as stated: every part with embedded status 404 gives Missing(id),    *)
(* every part with status 429 gives RateLimit(id), and such a part never   *)
(* makes the call fail.                                                    *)
C4_AsStated ==
    \A i \in 1..Len(mp) :
        (WellFramed(mp[i]) /\ mp[i].inner.status \in {404, 429})
        => /\ Accepted(i)
           /\ out[i] = IF mp[i].inner.status = 404
                         THEN Missing(IdOf(mp[i])) ELSE RateLimit(IdOf(mp[i]))

(* C4, amended: the same for every part whose embedded response carries a  *)
(* content-type and a content-length header with decodable values.         *)
C4_NotFoundRateLimited ==
    \A i \in 1..Len(mp) :
        (WellFramed(mp[i]) /\ HasHeaders(mp[i]) /\ mp[i].inner.status \in {404, 429})
        => /\ Accepted(i)
           /\ out[i] = IF mp[i].inner.status = 404
                         THEN Missing(IdOf(mp[i])) ELSE RateLimit(IdOf(mp[i]))

C4_Witness ==
    /\ Returned
    /\ \E i, j \in 1..Len(mp) :
        /\ mp[i].inner.status = 404
        /\ ret.val[i] = Missing(IdOf(mp[i]))
        /\ mp[j].inner.status = 429
        /\ ret.val[j] = RateLimit(IdOf(mp[j]))

(* C5: a 403 part whose error document holds an entry with domain          *)
(* usageLimits and reason userRateLimitExceeded or rateLimitExceeded gives *)
(* RateLimit(id) and does not fail the call.  The parts considered are     *)
(* well-formed: type application/json and the declared length.             *)
C5_QuotaIsRateLimit ==
    \A i \in 1..Len(mp) :
        ( /\ WellFramed(mp[i])
          /\ mp[i].inner.ct = "application/json"
          /\ mp[i].inner.cl = NumLen(mp[i].inner.blen)
          /\ mp[i].inner.status = 403
          /\ HasQuotaEntry(mp[i].inner.doc) )
        => Accepted(i) /\ out[i] = RateLimit(IdOf(mp[i]))

(* C6: a 403 part whose body is no error document, or is one without a     *)
(* quota entry, makes the call return an error and gives no outcome.       *)
C6_ForbiddenIsFatal ==
    \A i \in 1..Len(mp) :
        ( /\ mp[i].inner.http = "complete"
          /\ mp[i].inner.status = 403
          /\ ~HasQuotaEntry(mp[i].inner.doc) )
        => FailedAt(i)

C6_Witness ==
    /\ pc = "done"
    /\ Len(mp) = 1
    /\ WellFramed(mp[1])
    /\ HasHeaders(mp[1])
    /\ mp[1].inner.status = 403
    /\ mp[1].inner.doc = ErrDoc(<<UD>>)
    /\ ret = Err(Error("inner response part had wrong status", 403, IdOf(mp[1])))

(* C7 as stated: a part whose embedded status is none of 200, 404, 429 and *)
(* 403 makes the call return an error naming the status and the id.        *)
C7_AsStated ==
    \A i \in 1..Len(mp) :
        (WellFramed(mp[i]) /\ mp[i].inner.status \notin {200, 404, 429, 403})
        => /\ FailedAt(i)
           /\ ret.err.status = mp[i].inner.status
           /\ ret.err.id = IdOf(mp[i])

(* C7, amended: such a part makes the call return an error and gives no    *)
(* outcome; the error names the status and the id when the embedded        *)
(* response carries decodable content-type and content-length headers.     *)
C7_UnexpectedStatus ==
    \A i \in 1..Len(mp) :
        (mp[i].inner.http = "complete" /\ mp[i].inner.status \notin {200, 404, 429, 403})
        => /\ FailedAt(i)
           /\ (WellFramed(mp[i]) /\ HasHeaders(mp[i])) =>
                ret.err = Error("inner response part had wrong status",
                                mp[i].inner.status, IdOf(mp[i]))

C7_Witness ==
    /\ pc = "done"
    /\ Len(mp) = 2
    /\ Len(out) = 1
    /\ mp[2].inner.status = 500
    /\ ret = Err(Error("inner response part had wrong status", 500, IdOf(mp[2])))

(* C8: in every part whose embedded response declares a content-length,    *)
(* a declared length that differs from the number of body bytes makes the  *)
(* call fail, whatever the embedded status.  The parts considered have the *)
(* type application/json.                                                  *)
C8_LengthChecked ==
    Returned =>
        \A i \in 1..Len(mp) :
            ( /\ WellFramed(mp[i])
              /\ mp[i].inner.ct = "application/json"
              /\ mp[i].inner.cl.k = "num" )
            => mp[i].inner.cl.v = mp[i].inner.blen

(* C9: a part is correlated only through a Content-ID response-req-{n}     *)
(* with n < len(ids): every other Content-ID makes the call fail, and an   *)
(* accepted part is attributed to ids[n].                                  *)
C9_Correlation ==
    \A i \in 1..Len(mp) :
        /\ (mp[i].cid.form # "num" \/ mp[i].cid.n >= Len(ids)) => FailedAt(i)
        /\ Accepted(i) =>
            /\ mp[i].cid.form = "num"
            /\ mp[i].cid.n < Len(ids)
            /\ idlog[i] = IdOf(mp[i])
            /\ out[i].v \in {"Missing", "RateLimit"} => out[i].id = IdOf(mp[i])
        /\ (FailedAt(i) /\ ret.err.id # 0) => ret.err.id = IdOf(mp[i])

C9_Witness ==
    /\ Returned
    /\ Len(mp) = 2
    /\ mp[1].cid.n = 1
    /\ mp[2].cid.n = 0
    /\ idlog = <<ids[2], ids[1]>>

(* C10 as stated: a 200 part gives Present only when the embedded content  *)
(* type is application/json, and a 200 part with another content type      *)
(* makes the call fail with the type-mismatch error.                       *)
C10_AsStated ==
    \A i \in 1..Len(mp) :
        (WellFramed(mp[i]) /\ mp[i].inner.status = 200)
        => /\ Accepted(i) => mp[i].inner.ct = "application/json"
           /\ mp[i].inner.ct = "text/html" =>
                /\ FailedAt(i)
                /\ ret.err.msg = "response part response had wrong type"

(* C10, amended: a 200 part gives Present only when the embedded content   *)
(* type is application/json; with any other content type it makes the call *)
(* fail, with the type-mismatch error when the content type is a media     *)
(* type and the content-length header is present and a number.             *)
C10_JsonOnly ==
    \A i \in 1..Len(mp) :
        (mp[i].inner.http = "complete" /\ mp[i].inner.status = 200)
        => /\ Accepted(i) =>
                mp[i].inner.ct = "application/json" /\ out[i].v = "Present"
           /\ mp[i].inner.ct # "application/json" => FailedAt(i)
           /\ ( /\ WellFramed(mp[i])
                /\ mp[i].inner.ct = "text/html"
                /\ mp[i].inner.cl.k = "num" )
                => ret.err.msg = "response part response had wrong type"

C10_Witness ==
    /\ pc = "done"
    /\ Len(mp) = 1
    /\ mp[1].inner.status = 200
    /\ mp[1].inner.ct = "text/html"
    /\ mp[1].inner.doc.kind = "msg"
    /\ mp[1].inner.cl.v = mp[1].inner.blen
    /\ ret = Err(Error("response part response had wrong type", 0, 0))

----------------------------------------------------------------------------
(* Bytes and byte strings.  A byte is a number in 0..255, a byte string a  *)
(* sequence of bytes.                                                      *)

cr == 13
lf == 10
DASHDASH == <<45, 45>>
CRLF == <<13, 10>>

(* to_ascii_lowercase *)
Lower(x) == [i \in 1..Len(x) |-> IF x[i] \in 65..90 THEN x[i] + 32 ELSE x[i]]

(* The white space str::trim removes, among the characters a header line   *)
(* can hold.                                                               *)
IsSpace(b) == b \in {9, 10, 11, 12, 13, 32}

(* str::trim *)
Trim(x) ==
    LET keep == {i \in 1..Len(x) : ~IsSpace(x[i])} IN
    IF keep = {} THEN << >>
    ELSE SubSeq(x, CHOOSE i \in keep : \A j \in keep : i <= j,
                   CHOOSE i \in keep : \A j \in keep : i >= j)

(* format!("{}", n) of an unsigned number *)
RECURSIVE Decimal(_)
Decimal(n) ==
    IF n < 10 THEN <<48 + n>> ELSE Decimal(n \div 10) \o <<48 + (n % 10)>>

----------------------------------------------------------------------------
(* The request body messages_get_common builds *)

(* "23121338-972e-11ea-a0c6-c3892af82e36" *)
bound ==
    <<50, 51, 49, 50, 49, 51, 51, 56, 45, 57, 55, 50, 101, 45, 49, 49, 101,
      97, 45, 97, 48, 99, 54, 45, 99, 51, 56, 57, 50, 97, 102, 56, 50, 101,
      51, 54>>

(* "Content-Type: application/http\r\n" *)
ContentTypeLine ==
    <<67, 111, 110, 116, 101, 110, 116, 45, 84, 121, 112, 101, 58, 32, 97,
      112, 112, 108, 105, 99, 97, 116, 105, 111, 110, 47, 104, 116, 116, 112,
      13, 10>>

(* "Content-ID: req-" *)
ContentIdPrefix ==
    <<67, 111, 110, 116, 101, 110, 116, 45, 73, 68, 58, 32, 114, 101, 113, 45>>

(* "GET /gmail/v1/users/me/messages/" *)
GetPrefix ==
    <<71, 69, 84, 32, 47, 103, 109, 97, 105, 108, 47, 118, 49, 47, 117, 115,
      101, 114, 115, 47, 109, 101, 47, 109, 101, 115, 115, 97, 103, 101, 115,
      47>>

(* "?format=" *)
FormatInfix == <<63, 102, 111, 114, 109, 97, 116, 61>>

(* The parameter fmt: "minimal" of messages_get, "raw" of messages_get_raw *)
Fmts == {<<109, 105, 110, 105, 109, 97, 108>>, <<114, 97, 119>>}

(* The text of the message id i: the letter m and the number, a string     *)
(* free of CR, LF and of the boundary.                                     *)
IdText(i) == <<109>> \o Decimal(i)

(* SubRequest with the sub-requests numbered from 1. *)
SubRequestFromOne(n, id, fmt) ==
    DASHDASH \o bound \o CRLF
    \o ContentTypeLine
    \o ContentIdPrefix \o Decimal(n + 1) \o CRLF
    \o CRLF
    \o GetPrefix \o id \o FormatInfix \o fmt \o CRLF
    \o CRLF
    \o CRLF

(* One iteration of the loop over ids.iter().enumerate() *)
SubRequest(n, id, fmt) ==
    DASHDASH \o bound \o CRLF
    \o ContentTypeLine
    \o ContentIdPrefix \o Decimal(n) \o CRLF
    \o CRLF
    \o GetPrefix \o id \o FormatInfix \o fmt \o CRLF
    \o CRLF
    \o CRLF

RECURSIVE SubRequests(_, _, _)
SubRequests(idl, n, fmt) ==
    IF n >= Len(idl) THEN << >>
    ELSE SubRequest(n, IdText(idl[n + 1]), fmt) \o SubRequests(idl, n + 1, fmt)

(* body, as sent *)
Encode(idl, fmt) ==
    SubRequests(idl, 0, fmt) \o DASHDASH \o bound \o DASHDASH \o CRLF

----------------------------------------------------------------------------
(* multipart_parse: the delimiters and the tests of the first loop *)

Bound(b) == DASHDASH \o b
Start(b) == Bound(b) \o CRLF
CrlfStart(b) == CRLF \o Start(b)
Inter(b) == CRLF \o Bound(b)

(* The value of the closure f: the message with pos, data.len() and        *)
(* acc.len().                                                              *)
ScanError(m, p, d, a) ==
    [tag |-> "err", msg |-> m, pos |-> p, len |-> Len(d), acclen |-> Len(a)]

(* The value of the closure f of the loop over one part. *)
PartError(m) == [tag |-> "err", msg |-> m]

(* An index or a slice out of range. *)
Panic == [tag |-> "panic"]

(* The closure follows, at position p of d. *)
Follows(d, p, sample) ==
    IF p + Len(sample) < Len(d)
        THEN sample = SubSeq(d, p + 1, p + Len(sample))
        ELSE FALSE

(* Rest that takes any buffer for one that starts with the delimiter. *)
RestAny(d, p, b) ==
    IF Follows(d, p, CrlfStart(b)) THEN Len(CrlfStart(b)) ELSE Len(Start(b))

(* State::Rest: the number of bytes to skip, or -1 for the error. *)
Rest(d, p, b) ==
    IF Follows(d, p, Start(b)) THEN Len(Start(b))
    ELSE IF Follows(d, p, CrlfStart(b)) THEN Len(CrlfStart(b))
    ELSE -1

(* State::PartOrEnd: what follows an inter-part boundary.  The slice       *)
(* data[pos..pos + 2] of the debugging line is taken before the error is   *)
(* returned.                                                               *)
PartOrEnd(d, p) ==
    LET end == Follows(d, p, DASHDASH)
        q == IF end THEN p + Len(DASHDASH) ELSE p
    IN  IF Follows(d, q, CRLF)
            THEN [k |-> IF end THEN "break" ELSE "part", pos |-> q + Len(CRLF)]
        ELSE IF end THEN [k |-> "break", pos |-> q]
        ELSE IF q + 2 > Len(d) THEN [k |-> "panic", pos |-> q]
        ELSE [k |-> "err", pos |-> q]

----------------------------------------------------------------------------
(* multipart_parse: the tests of the loop over one part *)

PartStates == {"Header", "HeaderCR", "HeaderOrBody", "HeaderOrBodyCR", "Body"}

Go(s, adv, line) == [k |-> "go", s |-> s, adv |-> adv, line |-> line]
Bad(m) == [k |-> "err", msg |-> m]

(* HeaderScan without the test b > 127. *)
HeaderScanEightBit(s, b) ==
    IF s = "Header" THEN
        IF b = cr THEN Go("HeaderCR", 1, "push")
        ELSE IF b = lf \/ b = 0 THEN Bad("malformed header")
        ELSE Go("Header", 1, "char")
    ELSE IF s = "HeaderCR" THEN
        IF b = lf THEN Go("HeaderOrBody", 1, "none")
        ELSE Bad("malformed header")
    ELSE IF s = "HeaderOrBody" THEN
        IF b = cr THEN Go("HeaderOrBodyCR", 1, "none")
        ELSE Go("Header", 0, "none")
    ELSE
        IF b = lf THEN Go("Body", 1, "none")
        ELSE Bad("malformed header")

(* One iteration of the loop over a part in a state other than Body, on    *)
(* the byte b: an error, or the next state, the number of bytes consumed   *)
(* and what happens to the header line ("push": hdrs.push(hdr.clone()) and *)
(* hdr.clear(); "char": hdr.push(b as char)).                              *)
HeaderScan(s, b) ==
    IF b > 127 THEN Bad("not 7-bit clean in header")
    ELSE IF s = "Header" THEN
        IF b = cr THEN Go("HeaderCR", 1, "push")
        ELSE IF b = lf \/ b = 0 THEN Bad("malformed header")
        ELSE Go("Header", 1, "char")
    ELSE IF s = "HeaderCR" THEN
        IF b = lf THEN Go("HeaderOrBody", 1, "none")
        ELSE Bad("malformed header")
    ELSE IF s = "HeaderOrBody" THEN
        IF b = cr THEN Go("HeaderOrBodyCR", 1, "none")
        ELSE Go("Header", 0, "none")
    ELSE
        IF b = lf THEN Go("Body", 1, "none")
        ELSE Bad("malformed header")

(* hdr.splitn(2, ':'): one piece when the line has no colon, else the text *)
(* before the first colon and the text after it.                           *)
Splitn2(x) ==
    LET c == {i \in 1..Len(x) : x[i] = 58} IN
    IF c = {} THEN <<x>>
    ELSE LET i == CHOOSE i \in c : \A j \in c : i <= j IN
         <<SubSeq(x, 1, i - 1), SubSeq(x, i + 1, Len(x))>>

(* The empty HashMap. *)
NoHeaders == [k \in {} |-> << >>]

(* Insert that keeps the value the key already has. *)
InsertIfAbsent(h, k, v) ==
    [x \in DOMAIN h \cup {k} |-> IF x \in DOMAIN h THEN h[x] ELSE v]

(* HashMap::insert *)
Insert(h, k, v) ==
    [x \in DOMAIN h \cup {k} |-> IF x = k THEN v ELSE h[x]]

(* The loop "for hdr in &hdrs" from the map h on. *)
RECURSIVE InsertAll(_, _)
InsertAll(h, l) ==
    IF l = << >> THEN h
    ELSE LET t == Splitn2(Head(l)) IN
         InsertAll(Insert(h, Lower(t[1]), Trim(t[2])), Tail(l))

(* headers after the loop, or the panic of t[1] on a line with no colon. *)
BuildHeaders(l) ==
    IF \E i \in 1..Len(l) : Len(Splitn2(l[i])) < 2 THEN Panic
    ELSE [tag |-> "ok", headers |-> InsertAll(NoHeaders, l)]

----------------------------------------------------------------------------
(* The buffers multipart_parse is run on *)

(* The requests the encoder builds, decoded with the boundary it used. *)
Requests ==
    {[ids |-> l, data |-> Encode(l, f), boundary |-> bound] :
        l \in IdLists, f \in Fmts}

(* The boundary of the sample responses ("B") and another one ("C"). *)
SampleBoundary == <<66>>
OtherBoundary == <<67>>

(* Part candidates: "a:1 CRLF CRLF x CRLF y"; three lines of which two     *)
(* have the same name in different case, with white space around the       *)
(* values, and a body of a byte above 127, a NUL and a LF; an empty body;  *)
(* a line with no colon.                                                   *)
SampleParts ==
    [plain |-> <<97, 58, 49, 13, 10, 13, 10, 120, 13, 10, 121>>,
     twice |-> <<65, 58, 32, 49, 13, 10, 97, 58, 50, 32, 13, 10, 98, 58, 9,
                 51, 13, 10, 13, 10, 200, 0, 10>>,
     nobody |-> <<97, 58, 49, 13, 10, 13, 10>>,
     nocolon |-> <<97, 13, 10, 13, 10, 120>>]

SamplePartLists ==
    {<<SampleParts.plain>>, <<SampleParts.twice>>, <<SampleParts.nobody>>,
     <<SampleParts.nocolon>>, <<SampleParts.plain, SampleParts.twice>>,
     <<SampleParts.twice, SampleParts.plain>>}

(* The parts pl, each followed by the delimiter, the last by nothing more. *)
RECURSIVE Delimited(_, _)
Delimited(pl, b) ==
    IF Len(pl) = 1 THEN pl[1] \o Inter(b)
    ELSE pl[1] \o Inter(b) \o CRLF \o Delimited(Tail(pl), b)

(* A well-formed document: the opening delimiter, bare or after one CRLF,  *)
(* the parts, and the closing delimiter with or without a CRLF after it.   *)
Document(lead, pl, tail, b) ==
    lead \o Start(b) \o Delimited(pl, b) \o DASHDASH \o tail

Skeletons ==
    {Document(lead, pl, tail, SampleBoundary) :
        lead \in {<< >>, CRLF}, pl \in SamplePartLists, tail \in {<< >>, CRLF}}

(* Every prefix of d, d included. *)
Truncations(d) == {SubSeq(d, 1, n) : n \in 0..Len(d)}

(* d with one byte replaced. *)
SubstBytes == {0, 10, 13, 45, 120, 200}
Substitutions(d) ==
    {[d EXCEPT ![i] = b] : i \in 1..Len(d), b \in SubstBytes}

(* Responses: the well-formed documents, cut short or with one byte        *)
(* replaced, decoded with their boundary, and the well-formed documents    *)
(* decoded with another boundary.                                          *)
Responses ==
    {[ids |-> << >>, data |-> d, boundary |-> SampleBoundary] :
        d \in UNION {Truncations(k) \cup Substitutions(k) : k \in Skeletons}}
    \cup {[ids |-> << >>, data |-> k, boundary |-> OtherBoundary] :
            k \in Skeletons}

ParseInputs == Requests \cup Responses

----------------------------------------------------------------------------
(* multipart_parse, one iteration of a loop per step *)

ParseInit ==
    /\ \E in \in ParseInputs :
        /\ ids = in.ids
        /\ data = in.data
        /\ boundary = in.boundary
    /\ mp = << >>
    /\ out = << >>
    /\ idlog = << >>
    /\ pc = "call"
    /\ ret = NoRet
    /\ scan = "Rest"
    /\ pos = 0
    /\ acc = << >>
    /\ parts = << >>
    /\ pidx = 0
    /\ pstate = "Header"
    /\ ppos = 0
    /\ hdr = << >>
    /\ hdrs = << >>
    /\ mpout = << >>
    /\ mpc = "scan"
    /\ mres = [tag |-> "none"]
    /\ StreamIdle
    /\ GateIdle

(* The return or the panic of the function. *)
Return(r) ==
    /\ mres' = r
    /\ mpc' = "done"

(* The first loop is left: the loop over the parts starts. *)
Break ==
    /\ mpc' = "part"
    /\ pidx' = 1
    /\ pstate' = "Header"
    /\ ppos' = 0
    /\ hdr' = << >>
    /\ hdrs' = << >>

(* if pos >= data.len() *)
ScanEnd ==
    /\ mpc = "scan"
    /\ pos >= Len(data)
    /\ Return(ScanError("unexpected end of multipart document", pos, data, acc))
    /\ UNCHANGED <<data, boundary, scan, pos, acc, parts, pidx, pstate, ppos,
                   hdr, hdrs, mpout>>
    /\ UNCHANGED <<bvars, svars, gvars>>

ScanRest ==
    /\ mpc = "scan"
    /\ pos < Len(data)
    /\ scan = "Rest"
    /\ LET n == Rest(data, pos, boundary) IN
       IF n < 0
           THEN /\ Return(ScanError("did not start with starting boundary",
                                    pos, data, acc))
                /\ UNCHANGED <<scan, pos, acc>>
           ELSE /\ pos' = pos + n
                /\ scan' = "Part"
                /\ acc' = << >>
                /\ UNCHANGED <<mpc, mres>>
    /\ UNCHANGED <<data, boundary, parts, pidx, pstate, ppos, hdr, hdrs, mpout>>
    /\ UNCHANGED <<bvars, svars, gvars>>

ScanPart ==
    /\ mpc = "scan"
    /\ pos < Len(data)
    /\ scan = "Part"
    /\ IF Follows(data, pos, Inter(boundary))
           THEN /\ pos' = pos + Len(Inter(boundary))
                /\ parts' = Append(parts, acc)
                /\ scan' = "PartOrEnd"
                /\ acc' = acc
           ELSE /\ acc' = Append(acc, data[pos + 1])
                /\ pos' = pos + 1
                /\ UNCHANGED <<parts, scan>>
    /\ UNCHANGED <<data, boundary, pidx, pstate, ppos, hdr, hdrs, mpout, mpc,
                   mres>>
    /\ UNCHANGED <<bvars, svars, gvars>>

ScanPartOrEnd ==
    /\ mpc = "scan"
    /\ pos < Len(data)
    /\ scan = "PartOrEnd"
    /\ LET r == PartOrEnd(data, pos) IN
       /\ pos' = r.pos
       /\ IF r.k = "part"
              THEN /\ acc' = << >>
                   /\ scan' = "Part"
                   /\ UNCHANGED <<mpc, mres, pidx, pstate, ppos, hdr, hdrs>>
          ELSE IF r.k = "break"
              THEN /\ Break
                   /\ UNCHANGED <<acc, scan, mres>>
          ELSE IF r.k = "panic"
              THEN /\ Return(Panic)
                   /\ UNCHANGED <<acc, scan, pidx, pstate, ppos, hdr, hdrs>>
          ELSE /\ Return(ScanError("expected part or end", r.pos, data, acc))
               /\ UNCHANGED <<acc, scan, pidx, pstate, ppos, hdr, hdrs>>
    /\ UNCHANGED <<data, boundary, parts, mpout>>
    /\ UNCHANGED <<bvars, svars, gvars>>

(* if pos >= part.len() *)
PartEnd ==
    /\ mpc = "part"
    /\ ppos >= Len(parts[pidx])
    /\ Return(PartError("unexpected end of part"))
    /\ UNCHANGED <<data, boundary, scan, pos, acc, parts, pidx, pstate, ppos,
                   hdr, hdrs, mpout>>
    /\ UNCHANGED <<bvars, svars, gvars>>

(* The states Header, HeaderCR, HeaderOrBody and HeaderOrBodyCR. *)
PartHeader ==
    /\ mpc = "part"
    /\ ppos < Len(parts[pidx])
    /\ pstate # "Body"
    /\ LET b == parts[pidx][ppos + 1]
           r == HeaderScan(pstate, b)
       IN  IF r.k = "err"
               THEN /\ Return(PartError(r.msg))
                    /\ UNCHANGED <<pstate, ppos, hdr, hdrs>>
               ELSE /\ pstate' = r.s
                    /\ ppos' = ppos + r.adv
                    /\ hdr' = IF r.line = "push" THEN << >>
                              ELSE IF r.line = "char" THEN Append(hdr, b)
                              ELSE hdr
                    /\ hdrs' = IF r.line = "push" THEN Append(hdrs, hdr)
                               ELSE hdrs
                    /\ UNCHANGED <<mpc, mres>>
    /\ UNCHANGED <<data, boundary, scan, pos, acc, parts, pidx, mpout>>
    /\ UNCHANGED <<bvars, svars, gvars>>

(* The state Body: the break with the rest of the part, the header map,    *)
(* mp.parts.push, and the next part or the return of Ok(mp).               *)
PartBody ==
    /\ mpc = "part"
    /\ ppos < Len(parts[pidx])
    /\ pstate = "Body"
    /\ LET body == SubSeq(parts[pidx], ppos + 1, Len(parts[pidx]))
           h == BuildHeaders(hdrs)
       IN  IF h.tag = "panic"
               THEN /\ Return(Panic)
                    /\ UNCHANGED <<pidx, pstate, ppos, hdr, hdrs, mpout>>
           ELSE /\ mpout' = Append(mpout, [headers |-> h.headers, body |-> body])
                /\ IF pidx = Len(parts)
                       THEN /\ Return([tag |-> "ok"])
                            /\ UNCHANGED <<pidx, pstate, ppos, hdr, hdrs>>
                       ELSE /\ pidx' = pidx + 1
                            /\ pstate' = "Header"
                            /\ ppos' = 0
                            /\ hdr' = << >>
                            /\ hdrs' = << >>
                            /\ UNCHANGED <<mpc, mres>>
    /\ UNCHANGED <<data, boundary, scan, pos, acc, parts>>
    /\ UNCHANGED <<bvars, svars, gvars>>

ParseNext ==
    \/ ScanEnd
    \/ ScanRest
    \/ ScanPart
    \/ ScanPartOrEnd
    \/ PartEnd
    \/ PartHeader
    \/ PartBody

ParseSpec == ParseInit /\ [][ParseNext]_vars

----------------------------------------------------------------------------
(* Vocabulary of the properties of multipart_parse *)

(* The buffer d holds the bytes x from position p (counted from 0) on. *)
At(d, p, x) == p + Len(x) <= Len(d) /\ SubSeq(d, p + 1, p + Len(x)) = x

(* The buffer is a request of the encoder for at least one id, decoded     *)
(* with the boundary of the encoder.                                       *)
IsRequest ==
    /\ ids # << >>
    /\ boundary = bound
    /\ \E f \in Fmts : data = Encode(ids, f)

(* The buffer begins with the opening delimiter, bare or after one CRLF. *)
Opens == At(data, 0, Start(boundary)) \/ At(data, 0, CrlfStart(boundary))

(* The first loop returned or panicked: the loop over the parts never      *)
(* started.                                                                *)
ScanFailed == mpc = "done" /\ pidx = 0

(* The positions (from 1) of the part candidate p where an empty line      *)
(* ends: CR LF CR LF.                                                      *)
Blanks(p) == {i \in 1..Len(p) : At(p, i - 1, CRLF \o CRLF)}
HasBlank(p) == Blanks(p) # {}
FirstBlank(p) == CHOOSE i \in Blanks(p) : \A j \in Blanks(p) : i <= j

(* The header region of p: up to the end of the first empty line, all of p *)
(* when p has none.                                                        *)
HeaderRegion(p) ==
    IF HasBlank(p) THEN SubSeq(p, 1, FirstBlank(p) + 3) ELSE p

(* The bytes of p after the first empty line. *)
AfterBlank(p) == SubSeq(p, FirstBlank(p) + 4, Len(p))

(* No byte above 127, no NUL, no LF without a CR before it, no CR without  *)
(* a LF after it.                                                          *)
Clean(x) ==
    \A i \in 1..Len(x) :
        /\ x[i] <= 127
        /\ x[i] # 0
        /\ x[i] = lf => (i > 1 /\ x[i - 1] = cr)
        /\ x[i] = cr => (i < Len(x) /\ x[i + 1] = lf)

(* A text the header scan may have collected. *)
HeaderText(x) == \A i \in 1..Len(x) : x[i] \in 1..127 /\ x[i] # cr /\ x[i] # lf

(* The lines of x, a text whose lines are separated by CR LF. *)
RECURSIVE LinesOf(_)
LinesOf(x) ==
    LET e == {i \in 1..Len(x) : At(x, i - 1, CRLF)} IN
    IF e = {} THEN <<x>>
    ELSE LET i == CHOOSE i \in e : \A j \in e : i <= j IN
         <<SubSeq(x, 1, i - 1)>> \o LinesOf(SubSeq(x, i + 2, Len(x)))

(* The header lines of the part candidate p, which has an empty line. *)
HeaderLines(p) == LinesOf(SubSeq(p, 1, FirstBlank(p) - 1))

(* Name and value of a header line that has a colon. *)
NameOf(l) == SubSeq(l, 1, (CHOOSE i \in 1..Len(l) :
                 l[i] = 58 /\ \A j \in 1..(i - 1) : l[j] # 58) - 1)
ValueOf(l) == SubSeq(l, 1 + (CHOOSE i \in 1..Len(l) :
                 l[i] = 58 /\ \A j \in 1..(i - 1) : l[j] # 58), Len(l))

----------------------------------------------------------------------------
(* C11: the request body the encoder builds for K >= 1 ids, decoded by     *)
(* multipart_parse with the boundary of the encoder, gives Ok with exactly *)
(* K parts; part n (from 0) has the header content-id with the value       *)
(* req-n and the header content-type with the value application/http.      *)
C11_RoundTrip ==
    (mpc = "done" /\ IsRequest) =>
        /\ mres.tag = "ok"
        /\ Len(mpout) = Len(ids)
        /\ \A n \in 0..(Len(ids) - 1) :
            LET h == mpout[n + 1].headers
                cid == <<99, 111, 110, 116, 101, 110, 116, 45, 105, 100>>
                ctype == <<99, 111, 110, 116, 101, 110, 116, 45, 116, 121,
                           112, 101>>
            IN  /\ cid \in DOMAIN h
                /\ h[cid] = <<114, 101, 113, 45, 48 + n>>
                /\ ctype \in DOMAIN h
                /\ h[ctype] = <<97, 112, 112, 108, 105, 99, 97, 116, 105,
                                111, 110, 47, 104, 116, 116, 112>>

(* A request for MaxIds ids has been decoded. *)
C11_Witness ==
    /\ mpc = "done"
    /\ IsRequest
    /\ Len(ids) = MaxIds
    /\ Len(mpout) = MaxIds

(* C12: the first loop leaves the state Rest only when the buffer begins   *)
(* with the opening delimiter, bare or after one CRLF; with any other      *)
(* buffer the function stays in Rest and returns an error with no part     *)
(* collected or decoded.                                                   *)
C12_OpeningDelimiter ==
    mpc # "idle" =>
        /\ scan # "Rest" => Opens
        /\ ~Opens =>
            /\ scan = "Rest"
            /\ parts = << >>
            /\ mpout = << >>
            /\ mpc \in {"scan", "done"}
            /\ mpc = "done" => mres.tag = "err"

(* A well-formed document decoded with a boundary other than its own has   *)
(* been refused.                                                           *)
C12_Witness ==
    /\ mpc = "done"
    /\ boundary = OtherBoundary
    /\ At(data, 0, Start(SampleBoundary))
    /\ mres.tag = "err"
    /\ mres.msg = "did not start with starting boundary"

(* C13: when the first loop ends the function, it does so with an error    *)
(* value that carries the position and the length of acc; it never panics. *)
C13_FramingError ==
    ScanFailed =>
        /\ mres.tag = "err"
        /\ mres.pos = pos
        /\ mres.len = Len(data)
        /\ mres.acclen = Len(acc)

(* C14: the first loop never fails in the state PartOrEnd in front of the  *)
(* two bytes "--": they end the document.                                  *)
C14_DashDashEnds ==
    ~(ScanFailed /\ scan = "PartOrEnd" /\ At(data, pos, DASHDASH))

(* C15: a header line never holds a byte above 127, a NUL, a CR or a LF;   *)
(* a part whose header region has a byte above 127, a NUL, a LF without CR *)
(* or a CR without LF makes the function fail; the two errors of the       *)
(* header scan are raised for such a header region only, never for a byte  *)
(* of the body.                                                            *)
C15_HeaderBytes ==
    /\ HeaderText(hdr)
    /\ \A i \in 1..Len(hdrs) : HeaderText(hdrs[i])
    /\ \A i \in 1..Len(mpout) : \A k \in DOMAIN mpout[i].headers :
        HeaderText(k) /\ HeaderText(mpout[i].headers[k])
    /\ (mpc = "done" /\ pidx >= 1 /\ ~Clean(HeaderRegion(parts[pidx])))
        => mres.tag = "err"
    /\ mres.tag = "ok" => \A i \in 1..Len(parts) : Clean(HeaderRegion(parts[i]))
    /\ (mpc = "done" /\ pidx >= 1 /\ mres.tag = "err"
            /\ mres.msg \in {"not 7-bit clean in header", "malformed header"})
        => ~Clean(HeaderRegion(parts[pidx]))

(* The second part was refused for a byte above 127 in its header region   *)
(* after a first part with such a byte in its body was decoded.            *)
C15_Witness ==
    /\ mpc = "done"
    /\ pidx = 2
    /\ mres.tag = "err"
    /\ mres.msg = "not 7-bit clean in header"
    /\ \E i \in 1..Len(mpout[1].body) : mpout[1].body[i] > 127

(* C16: a part candidate whose header region is clean and ends with an     *)
(* empty line is not refused, and the body of every decoded part is the    *)
(* bytes of the candidate after the first empty line.                      *)
C16_BodyIsRest ==
    /\ \A i \in 1..Len(mpout) :
        HasBlank(parts[i]) /\ mpout[i].body = AfterBlank(parts[i])
    /\ (mpc = "done" /\ pidx >= 1 /\ mres.tag = "err")
        => ~(HasBlank(parts[pidx]) /\ Clean(HeaderRegion(parts[pidx])))

(* C17: the header map of every decoded part has exactly the lower-cased   *)
(* names of the header lines of the part as keys, and the value of a key   *)
(* is the trimmed value of the last line with that name.                   *)
C17_HeaderMap ==
    \A i \in 1..Len(mpout) :
        LET l == HeaderLines(parts[i])
            h == mpout[i].headers
        IN  /\ DOMAIN h = {Lower(NameOf(l[j])) : j \in 1..Len(l)}
            /\ \A j \in 1..Len(l) :
                (\A k \in (j + 1)..Len(l) :
                    Lower(NameOf(l[k])) # Lower(NameOf(l[j])))
                => h[Lower(NameOf(l[j]))] = Trim(ValueOf(l[j]))

(* A part with three header lines, two of them with the names A and a, has *)
(* been decoded: its map has two keys.                                     *)
C17_Witness ==
    \E i \in 1..Len(mpout) :
        /\ Len(HeaderLines(parts[i])) = 3
        /\ Cardinality(DOMAIN mpout[i].headers) = 2
        /\ mpout[i].headers[<<97>>] = <<50>>

----------------------------------------------------------------------------
(* The streams of pages: Messages and History *)

(* Bounds: the page tokens the server hands out are 1..MaxTok, a page has  *)
(* at most MaxItems items, at most MaxErrs calls of fetch_page fail.       *)
MaxTok == 2
MaxItems == 2
MaxErrs == 2

(* Option<T> *)
None == << >>
Some(x) == <<x>>

(* The page tokens of the server. *)
Tokens == 1..MaxTok

(* The number of the page the request with the token pt asks for: 0 for    *)
(* the request with no token.  The server names the token of page k by k.  *)
PageNo(pt) == IF pt = None THEN 0 ELSE pt[1]

(* The listings a server can hold: one to MaxTok + 1 pages of up to        *)
(* MaxItems items each.  A server maps every page token to a fixed page.   *)
Servers == UNION {[0..k -> 0..MaxItems] : k \in 0..MaxTok}

(* The page the server srv sends in reply to the token pt: its items, each *)
(* named by the page and its place in it, the token of the following page  *)
(* unless the page is the last, and a history_id of its own.               *)
PageOf(srv, pt) ==
    LET k == PageNo(pt) IN
    [items |-> [i \in 1..srv[k] |-> <<k, i>>],
     next |-> IF k + 1 \in DOMAIN srv THEN Some(k + 1) ELSE None,
     history_id |-> 7 + k]

(* The items of the pages of srv from the page of the token pt on. *)
RECURSIVE ItemsFrom(_, _)
ItemsFrom(srv, pt) ==
    LET o == PageOf(srv, pt) IN
    IF o.next = None THEN o.items ELSE o.items \o ItemsFrom(srv, o.next)

(* The future of a call of fetch_page with the argument pt: running, or    *)
(* settled with a page or with an error.                                   *)
NoPage == [items |-> << >>, next |-> None, history_id |-> 0]
Running(pt) == [pt |-> pt, st |-> "running", page |-> NoPage]
SettledOk(pt, o) == [pt |-> pt, st |-> "ok", page |-> o]
SettledErr(pt) == [pt |-> pt, st |-> "err", page |-> NoPage]

(* The number of failed calls of fetch_page. *)
Errs == Cardinality({i \in 1..Len(flog) : flog[i].st = "err"})

(* MessagesConfig::start and HistoryConfig::start.  A Messages stream      *)
(* starts from resume_from_token, which is None unless the caller set it.  *)
StreamInit ==
    /\ skind \in {"Messages", "History"}
    /\ api \in {"async", "blocking"}
    /\ server \in Servers
    /\ gen = 0
    /\ owed = << >>
    /\ fin = FALSE
    /\ previous_token = None
    /\ page_token \in IF skind = "Messages"
                         THEN {None} \cup {Some(t) : t \in Tokens \cap DOMAIN server}
                         ELSE {None}
    /\ infl = << >>
    /\ final_id = None
    /\ fetch = None
    /\ spc = "idle"
    /\ sres = [tag |-> "none"]
    /\ flog = << >>
    /\ fetched = << >>
    /\ delivered = << >>
    /\ ids = << >>
    /\ mp = << >>
    /\ out = << >>
    /\ idlog = << >>
    /\ pc = "call"
    /\ ret = NoRet
    /\ ParseIdle
    /\ GateIdle

(* The caller calls next (poll_next for the async streams). *)
CallNext ==
    /\ spc = "idle"
    /\ spc' = "loop"
    /\ UNCHANGED <<skind, api, fin, previous_token, page_token, infl, final_id,
                   fetch, sres, flog, fetched, delivered>>
    /\ UNCHANGED <<server, gen, owed>>
    /\ UNCHANGED <<bvars, pvars, gvars>>

(* The call returns r. *)
Returns(r) ==
    /\ spc' = "idle"
    /\ sres' = r

(* PopFront that takes the last item of the buffer. *)
PopBack ==
    /\ spc = "loop"
    /\ infl # << >>
    /\ infl' = SubSeq(infl, 1, Len(infl) - 1)
    /\ delivered' = Append(delivered, infl[Len(infl)])
    /\ Returns([tag |-> "item", item |-> infl[Len(infl)]])
    /\ UNCHANGED <<skind, api, fin, previous_token, page_token, final_id,
                   fetch, flog, fetched>>
    /\ UNCHANGED <<server, gen, owed>>
    /\ UNCHANGED <<bvars, pvars, gvars>>

(* PopFront that empties the buffer. *)
PopFrontDrain ==
    /\ spc = "loop"
    /\ infl # << >>
    /\ infl' = << >>
    /\ delivered' = Append(delivered, Head(infl))
    /\ Returns([tag |-> "item", item |-> Head(infl)])
    /\ UNCHANGED <<skind, api, fin, previous_token, page_token, final_id,
                   fetch, flog, fetched>>
    /\ UNCHANGED <<server, gen, owed>>
    /\ UNCHANGED <<bvars, pvars, gvars>>

(* if let Some(rm) = self.infl.pop_front() *)
PopFront ==
    /\ spc = "loop"
    /\ infl # << >>
    /\ infl' = Tail(infl)
    /\ delivered' = Append(delivered, Head(infl))
    /\ Returns([tag |-> "item", item |-> Head(infl)])
    /\ UNCHANGED <<skind, api, fin, previous_token, page_token, final_id,
                   fetch, flog, fetched>>
    /\ UNCHANGED <<server, gen, owed>>
    /\ UNCHANGED <<bvars, pvars, gvars>>

(* End that starts the stream again. *)
EndRestart ==
    /\ spc = "loop"
    /\ infl = << >>
    /\ fin
    /\ fin' = FALSE
    /\ Returns([tag |-> "end"])
    /\ UNCHANGED <<skind, api, previous_token, page_token, infl, final_id,
                   fetch, flog, fetched, delivered>>
    /\ UNCHANGED <<server, gen, owed>>
    /\ UNCHANGED <<bvars, pvars, gvars>>

(* if self.fin: the end of the sequence, None. *)
End ==
    /\ spc = "loop"
    /\ infl = << >>
    /\ fin
    /\ Returns([tag |-> "end"])
    /\ UNCHANGED <<skind, api, fin, previous_token, page_token, infl,
                   final_id, fetch, flog, fetched, delivered>>
    /\ UNCHANGED <<server, gen, owed>>
    /\ UNCHANGED <<bvars, pvars, gvars>>

(* TakePage that leaves previous_token alone. *)
TakePageKeepPrevious(o) ==
    /\ previous_token' = previous_token
    /\ page_token' = o.next
    /\ fin' = IF o.next = None THEN TRUE ELSE fin
    /\ final_id' = IF skind = "History" /\ o.next = None
                       THEN Some(o.history_id) ELSE final_id
    /\ infl' = infl \o o.items
    /\ fetched' = fetched \o o.items

(* TakePage that sets previous_token to the token of the page. *)
TakePageResumeNext(o) ==
    /\ previous_token' = IF skind = "Messages" THEN o.next
                         ELSE previous_token
    /\ page_token' = o.next
    /\ fin' = IF o.next = None THEN TRUE ELSE fin
    /\ final_id' = IF skind = "History" /\ o.next = None
                       THEN Some(o.history_id) ELSE final_id
    /\ infl' = infl \o o.items
    /\ fetched' = fetched \o o.items

(* TakePage that sets final_id from every page. *)
TakePageMarkAlways(o) ==
    /\ previous_token' = IF skind = "Messages" THEN page_token
                         ELSE previous_token
    /\ page_token' = o.next
    /\ fin' = IF o.next = None THEN TRUE ELSE fin
    /\ final_id' = IF skind = "History"
                       THEN Some(o.history_id) ELSE final_id
    /\ infl' = infl \o o.items
    /\ fetched' = fetched \o o.items

(* TakePage that ends the stream on a page with no item. *)
TakePageEmptyEnds(o) ==
    /\ previous_token' = IF skind = "Messages" THEN page_token
                         ELSE previous_token
    /\ page_token' = o.next
    /\ fin' = IF o.next = None \/ o.items = << >> THEN TRUE ELSE fin
    /\ final_id' = IF skind = "History" /\ o.next = None
                       THEN Some(o.history_id) ELSE final_id
    /\ infl' = infl \o o.items
    /\ fetched' = fetched \o o.items

(* What the stream does with the page o. *)
TakePage(o) ==
    /\ previous_token' = IF skind = "Messages" THEN page_token
                         ELSE previous_token
    /\ page_token' = o.next
    /\ fin' = IF o.next = None THEN TRUE ELSE fin
    /\ final_id' = IF skind = "History" /\ o.next = None
                       THEN Some(o.history_id) ELSE final_id
    /\ infl' = infl \o o.items
    /\ fetched' = fetched \o o.items

(* StartFetch that does not look at self.fetch. *)
StartFetchAlways ==
    /\ spc = "loop"
    /\ api = "async"
    /\ infl = << >>
    /\ ~fin
    /\ fetch' = Some(Running(page_token))
    /\ flog' = Append(flog, [pt |-> page_token, st |-> "running"])
    /\ UNCHANGED <<skind, api, fin, previous_token, page_token, infl,
                   final_id, spc, sres, fetched, delivered>>
    /\ UNCHANGED <<server, gen, owed>>
    /\ UNCHANGED <<bvars, pvars, gvars>>

(* StartFetch whose first fetch asks for the first page of the listing. *)
StartFetchFirstPage ==
    /\ spc = "loop"
    /\ api = "async"
    /\ infl = << >>
    /\ ~fin
    /\ fetch = None
    /\ fetch' = Some(Running(IF flog = << >> THEN None ELSE page_token))
    /\ flog' = Append(flog, [pt |-> IF flog = << >> THEN None ELSE page_token,
                             st |-> "running"])
    /\ UNCHANGED <<skind, api, fin, previous_token, page_token, infl,
                   final_id, spc, sres, fetched, delivered>>
    /\ UNCHANGED <<server, gen, owed>>
    /\ UNCHANGED <<bvars, pvars, gvars>>

(* No fetch was in progress: self.fetch = Some(fetch_page(c, pt)) with     *)
(* pt = self.page_token.clone().  The loop goes on.                        *)
StartFetch ==
    /\ spc = "loop"
    /\ api = "async"
    /\ infl = << >>
    /\ ~fin
    /\ fetch = None
    /\ fetch' = Some(Running(page_token))
    /\ flog' = Append(flog, [pt |-> page_token, st |-> "running"])
    /\ UNCHANGED <<skind, api, fin, previous_token, page_token, infl,
                   final_id, spc, sres, fetched, delivered>>
    /\ UNCHANGED <<server, gen, owed>>
    /\ UNCHANGED <<bvars, pvars, gvars>>

(* The fetch in progress settles: check_refresh, the request or the        *)
(* decoding of the reply fails, or the page of the server arrives.  The    *)
(* stream sees the outcome when it polls the future.                       *)
Settle ==
    /\ fetch # None
    /\ fetch[1].st = "running"
    /\ \/ /\ fetch' = Some(SettledOk(fetch[1].pt, PageOf(server, fetch[1].pt)))
          /\ flog' = [flog EXCEPT ![Len(flog)].st = "ok"]
       \/ /\ Errs < MaxErrs
          /\ fetch' = Some(SettledErr(fetch[1].pt))
          /\ flog' = [flog EXCEPT ![Len(flog)].st = "err"]
    /\ UNCHANGED <<skind, api, fin, previous_token, page_token, infl,
                   final_id, spc, sres, fetched, delivered>>
    /\ UNCHANGED <<server, gen, owed>>
    /\ UNCHANGED <<bvars, pvars, gvars>>

(* pin.poll(cx) gives Poll::Pending. *)
PollPending ==
    /\ spc = "loop"
    /\ infl = << >>
    /\ ~fin
    /\ fetch # None
    /\ fetch[1].st = "running"
    /\ Returns([tag |-> "pending"])
    /\ UNCHANGED <<skind, api, fin, previous_token, page_token, infl,
                   final_id, fetch, flog, fetched, delivered>>
    /\ UNCHANGED <<server, gen, owed>>
    /\ UNCHANGED <<bvars, pvars, gvars>>

(* PollOk that loses the first item of the page. *)
PollOkSkipFirst ==
    /\ spc = "loop"
    /\ infl = << >>
    /\ ~fin
    /\ fetch # None
    /\ fetch[1].st = "ok"
    /\ fetch' = None
    /\ LET o == fetch[1].page IN
       TakePage([o EXCEPT !.items = IF o.items = << >> THEN << >>
                                    ELSE Tail(o.items)])
    /\ UNCHANGED <<skind, api, spc, sres, flog, delivered>>
    /\ UNCHANGED <<server, gen, owed>>
    /\ UNCHANGED <<bvars, pvars, gvars>>

(* PollOk that keeps the future. *)
PollOkKeepFuture ==
    /\ spc = "loop"
    /\ infl = << >>
    /\ ~fin
    /\ fetch # None
    /\ fetch[1].st = "ok"
    /\ fetch' = fetch
    /\ TakePage(fetch[1].page)
    /\ UNCHANGED <<skind, api, spc, sres, flog, delivered>>
    /\ UNCHANGED <<server, gen, owed>>
    /\ UNCHANGED <<bvars, pvars, gvars>>

(* pin.poll(cx) gives Poll::Ready(Ok(o)).  The loop goes on. *)
PollOk ==
    /\ spc = "loop"
    /\ infl = << >>
    /\ ~fin
    /\ fetch # None
    /\ fetch[1].st = "ok"
    /\ fetch' = None
    /\ TakePage(fetch[1].page)
    /\ UNCHANGED <<skind, api, spc, sres, flog, delivered>>
    /\ UNCHANGED <<server, gen, owed>>
    /\ UNCHANGED <<bvars, pvars, gvars>>

(* PollErr that ends the stream. *)
PollErrFin ==
    /\ spc = "loop"
    /\ infl = << >>
    /\ ~fin
    /\ fetch # None
    /\ fetch[1].st = "err"
    /\ fetch' = None
    /\ fin' = TRUE
    /\ Returns([tag |-> "err"])
    /\ UNCHANGED <<skind, api, previous_token, page_token, infl, final_id,
                   flog, fetched, delivered>>
    /\ UNCHANGED <<server, gen, owed>>
    /\ UNCHANGED <<bvars, pvars, gvars>>

(* PollErr that keeps the future that failed. *)
PollErrKeepFuture ==
    /\ spc = "loop"
    /\ infl = << >>
    /\ ~fin
    /\ fetch # None
    /\ fetch[1].st = "err"
    /\ fetch' = fetch
    /\ Returns([tag |-> "err"])
    /\ UNCHANGED <<skind, api, fin, previous_token, page_token, infl,
                   final_id, flog, fetched, delivered>>
    /\ UNCHANGED <<server, gen, owed>>
    /\ UNCHANGED <<bvars, pvars, gvars>>

(* pin.poll(cx) gives Poll::Ready(Err(e)). *)
PollErr ==
    /\ spc = "loop"
    /\ infl = << >>
    /\ ~fin
    /\ fetch # None
    /\ fetch[1].st = "err"
    /\ fetch' = None
    /\ Returns([tag |-> "err"])
    /\ UNCHANGED <<skind, api, fin, previous_token, page_token, infl,
                   final_id, flog, fetched, delivered>>
    /\ UNCHANGED <<server, gen, owed>>
    /\ UNCHANGED <<bvars, pvars, gvars>>

(* The blocking self.fetch_page() gives Ok(o).  The loop goes on. *)
FetchPageOk ==
    /\ spc = "loop"
    /\ api = "blocking"
    /\ infl = << >>
    /\ ~fin
    /\ TakePage(PageOf(server, page_token))
    /\ flog' = Append(flog, [pt |-> page_token, st |-> "ok"])
    /\ UNCHANGED <<skind, api, fetch, spc, sres, delivered>>
    /\ UNCHANGED <<server, gen, owed>>
    /\ UNCHANGED <<bvars, pvars, gvars>>

(* The blocking self.fetch_page() gives Err(e). *)
FetchPageErr ==
    /\ spc = "loop"
    /\ api = "blocking"
    /\ infl = << >>
    /\ ~fin
    /\ Errs < MaxErrs
    /\ flog' = Append(flog, [pt |-> page_token, st |-> "err"])
    /\ Returns([tag |-> "err"])
    /\ UNCHANGED <<skind, api, fin, previous_token, page_token, infl,
                   final_id, fetch, fetched, delivered>>
    /\ UNCHANGED <<server, gen, owed>>
    /\ UNCHANGED <<bvars, pvars, gvars>>

(* Restart with the new stream started from page_token, the token of the   *)
(* page not yet fetched.                                                   *)
RestartFromCurrent ==
    /\ gen = 0
    /\ skind = "Messages"
    /\ spc = "idle"
    /\ gen' = 1
    /\ owed' = infl \o (IF fin THEN << >> ELSE ItemsFrom(server, page_token))
    /\ page_token' = page_token
    /\ previous_token' = None
    /\ fin' = FALSE
    /\ infl' = << >>
    /\ fetch' = None
    /\ sres' = [tag |-> "none"]
    /\ flog' = << >>
    /\ fetched' = << >>
    /\ delivered' = << >>
    /\ UNCHANGED <<skind, api, final_id, spc, server>>
    /\ UNCHANGED <<bvars, pvars, gvars>>

(* The caller reads resume_token() of the Messages stream, drops the       *)
(* stream and starts a new one with resume_from_token set to that value    *)
(* (with no resume_from_token when it is None).  owed keeps what the       *)
(* dropped stream had still to deliver: its buffer and the items of the    *)
(* pages from page_token on.                                               *)
Restart ==
    /\ gen = 0
    /\ skind = "Messages"
    /\ spc = "idle"
    /\ gen' = 1
    /\ owed' = infl \o (IF fin THEN << >> ELSE ItemsFrom(server, page_token))
    /\ page_token' = previous_token
    /\ previous_token' = None
    /\ fin' = FALSE
    /\ infl' = << >>
    /\ fetch' = None
    /\ sres' = [tag |-> "none"]
    /\ flog' = << >>
    /\ fetched' = << >>
    /\ delivered' = << >>
    /\ UNCHANGED <<skind, api, final_id, spc, server>>
    /\ UNCHANGED <<bvars, pvars, gvars>>

StreamNext ==
    \/ CallNext
    \/ PopFront
    \/ End
    \/ StartFetch
    \/ Settle
    \/ PollPending
    \/ PollOk
    \/ PollErr
    \/ FetchPageOk
    \/ FetchPageErr
    \/ Restart

StreamSpec == StreamInit /\ [][StreamNext]_vars

----------------------------------------------------------------------------
(* Vocabulary of the properties of the streams *)

(* The calls of fetch_page that have not settled. *)
Outstanding == {i \in 1..Len(flog) : flog[i].st = "running"}

(* A call of fetch_page is made in the step. *)
FetchIssued == Len(flog') > Len(flog)

(* The fields of the stream the caller can observe are left alone. *)
StreamUnchanged ==
    UNCHANGED <<fin, previous_token, page_token, infl, final_id>>

(* The stream has finished and its buffer is empty. *)
Drained == fin /\ infl = << >>

(* The step is a step of the stream, not the start of another stream. *)
SameStream == gen' = gen

----------------------------------------------------------------------------
(* C18: at most one call of fetch_page is outstanding, and it is the one   *)
(* self.fetch holds; while self.fetch holds a future no call of fetch_page *)
(* is made, and a call of next that finds the future running returns       *)
(* Pending and leaves the future in place.                                 *)
C18_SingleFlight ==
    /\ [](/\ Cardinality(Outstanding) <= 1
          /\ Outstanding # {} =>
                /\ Outstanding = {Len(flog)}
                /\ fetch = Some(Running(flog[Len(flog)].pt)))
    /\ [][/\ FetchIssued => (fetch = None /\ Outstanding = {})
          /\ (spc = "loop" /\ spc' = "idle" /\ Outstanding # {})
                => (sres'.tag = "pending" /\ fetch' = fetch)]_vars

(* A call has returned Pending on the second fetch of the stream, which    *)
(* is still running.                                                       *)
C18_Witness ==
    /\ api = "async"
    /\ spc = "idle"
    /\ sres.tag = "pending"
    /\ Len(flog) = 2
    /\ Outstanding = {2}

(* C19: a step that returns the error of a failed fetch leaves fin,        *)
(* previous_token, page_token, the buffer and final_id as they were and    *)
(* holds no future after it; after the error the stream has not finished;  *)
(* and the call of fetch_page after a failed one has the page_token        *)
(* argument of the failed one.                                             *)
C19_ErrorKeepsState ==
    /\ [](/\ (spc = "idle" /\ sres.tag = "err") => (~fin /\ fetch = None)
          /\ \A i \in 1..(Len(flog) - 1) :
                flog[i].st = "err" => flog[i + 1].pt = flog[i].pt)
    /\ [][(spc = "loop" /\ spc' = "idle" /\ sres'.tag = "err")
            => (StreamUnchanged /\ fetch' = None)]_vars

(* A fetch with a page token failed and the next fetch, with the same      *)
(* token, gave a page.                                                     *)
C19_Witness ==
    \E i \in 1..(Len(flog) - 1) :
        /\ flog[i].st = "err"
        /\ flog[i].pt # None
        /\ flog[i + 1].st = "ok"
        /\ flog[i + 1].pt = flog[i].pt

(* C20: once fin is true and the buffer is empty, no step of the stream    *)
(* changes it or calls fetch_page, and every call of next returns the end  *)
(* of the sequence; the end of the sequence is returned only when every    *)
(* item taken from the server has been delivered.                          *)
C20_IdempotentEnd ==
    /\ []((spc = "idle" /\ sres.tag = "end")
            => (Drained /\ delivered = fetched /\ fetch = None))
    /\ [][(Drained /\ SameStream) =>
            /\ StreamUnchanged
            /\ fetch' = fetch
            /\ ~FetchIssued
            /\ delivered' = delivered
            /\ (spc = "loop" /\ spc' = "idle") => sres'.tag = "end"]_vars

(* A call of next is under way after an earlier call returned the end of   *)
(* the sequence of a stream that delivered items of two pages.             *)
C20_Witness ==
    /\ spc = "loop"
    /\ sres.tag = "end"
    /\ Len(flog) >= 2
    /\ delivered # << >>
    /\ delivered = fetched

----------------------------------------------------------------------------
(* More vocabulary of the properties of the streams *)

(* The calls of fetch_page whose page the stream has taken: they gave Ok   *)
(* and the stream has seen it.                                             *)
Taken ==
    {i \in 1..Len(flog) :
        flog[i].st = "ok" /\ ~(fetch # None /\ i = Len(flog))}

(* The last of them. *)
LastTaken == CHOOSE i \in Taken : \A j \in Taken : j <= i

(* The step is the one in which the stream takes the page of a fetch that  *)
(* gave Ok.                                                                *)
PageTaken ==
    /\ SameStream
    /\ \/ fetch # None /\ fetch[1].st = "ok" /\ fetch' = None
       \/ api = "blocking" /\ FetchIssued /\ flog'[Len(flog')].st = "ok"

(* The items of the pages taken by the calls of fetch_page from the i-th   *)
(* on, in the order of the calls.                                          *)
RECURSIVE ItemsTaken(_)
ItemsTaken(i) ==
    IF i > Len(flog) THEN << >>
    ELSE (IF i \in Taken THEN PageOf(server, flog[i].pt).items ELSE << >>)
         \o ItemsTaken(i + 1)

(* x is the end of y. *)
IsSuffix(x, y) ==
    Len(x) <= Len(y) /\ SubSeq(y, Len(y) - Len(x) + 1, Len(y)) = x

----------------------------------------------------------------------------
(* C21: the step in which a stream takes the page of a successful fetch    *)
(* sets previous_token (Messages) to the old page_token, page_token to the *)
(* token of the page, fin to true exactly when the page has no token, and  *)
(* appends the items of the page to the buffer; every other step of the    *)
(* stream leaves previous_token, page_token, fin and final_id alone and    *)
(* leaves the buffer alone or removes its first item.                      *)
C21_FetchCompletion ==
    [][SameStream =>
        LET o == PageOf(server, page_token) IN
        IF PageTaken
            THEN /\ skind = "Messages" => previous_token' = page_token
                 /\ page_token' = o.next
                 /\ fin' = (o.next = None)
                 /\ infl' = infl \o o.items
            ELSE /\ UNCHANGED <<previous_token, page_token, fin, final_id>>
                 /\ \/ infl' = infl
                    \/ infl # << >> /\ infl' = Tail(infl)]_vars

(* The page of token 1 has been taken: two items are buffered and the      *)
(* tokens are 1 and 2.                                                     *)
C21_Witness ==
    /\ gen = 0
    /\ previous_token = Some(1)
    /\ page_token = Some(2)
    /\ ~fin
    /\ Len(infl) = 2

(* C22: previous_token of a Messages stream, the value of resume_token(),  *)
(* is None until a page has been taken and then the page_token argument of *)
(* the last fetch whose page was taken; page_token is the token that page  *)
(* carried.                                                                *)
C22_ResumeToken ==
    skind = "Messages" =>
        IF Taken = {} THEN previous_token = None
        ELSE /\ previous_token = flog[LastTaken].pt
             /\ page_token = PageOf(server, previous_token).next

(* The items of the page of token 1 have been consumed and resume_token()  *)
(* is that token.                                                          *)
C22_Witness ==
    /\ skind = "Messages"
    /\ gen = 0
    /\ spc = "idle"
    /\ previous_token = Some(1)
    /\ infl = << >>
    /\ delivered # << >>
    /\ delivered[Len(delivered)][1] = 1

(* C23: the items delivered, followed by the items in the buffer, are the  *)
(* items of the pages taken, in the order of the fetches and of the server *)
(* within a page; no item is delivered twice.                              *)
C23_DeliveryOrder ==
    /\ delivered \o infl = ItemsTaken(1)
    /\ \A i, j \in 1..Len(delivered) : i # j => delivered[i] # delivered[j]

(* A stream has delivered the items of two pages, four in all, after a     *)
(* failed fetch.                                                           *)
C23_Witness ==
    /\ Errs >= 1
    /\ Cardinality(Taken) >= 2
    /\ Len(delivered) = 4
    /\ infl = << >>

(* C24: when the Messages stream started from resume_token() of another    *)
(* has returned the end of the sequence, the items the other stream had    *)
(* not delivered are the end of what it delivered, in their order.         *)
C24_AtLeastOnce ==
    (gen = 1 /\ spc = "idle" /\ sres.tag = "end") => IsSuffix(owed, delivered)

(* The second stream has delivered items the first had delivered already   *)
(* and then the items the first had left.                                  *)
C24_Witness ==
    /\ gen = 1
    /\ spc = "idle"
    /\ sres.tag = "end"
    /\ owed # << >>
    /\ Len(delivered) > Len(owed)

(* C25: in a History stream final_id is None while fin is false; when fin  *)
(* is true it is the history_id of the last page taken, which carried no   *)
(* token, and no step changes it; with a first page of 2 items and no      *)
(* token the stream delivers these 2 items before the end of the sequence  *)
(* and final_id is the history_id of that page.                            *)
C25_FinalId ==
    /\ [](skind = "History" =>
            /\ ~fin => final_id = None
            /\ fin =>
                /\ Taken # {}
                /\ PageOf(server, flog[LastTaken].pt).next = None
                /\ final_id = Some(PageOf(server, flog[LastTaken].pt).history_id)
            /\ (spc = "idle" /\ sres.tag = "end" /\ DOMAIN server = {0}
                    /\ server[0] = 2)
                => /\ delivered = PageOf(server, None).items
                   /\ final_id = Some(PageOf(server, None).history_id))
    /\ [][(skind = "History" /\ fin) => final_id' = final_id]_vars

(* A History stream whose only page has 2 items has delivered them and     *)
(* returned the end of the sequence.                                       *)
C25_Witness ==
    /\ skind = "History"
    /\ spc = "idle"
    /\ sres.tag = "end"
    /\ DOMAIN server = {0}
    /\ Len(delivered) = 2
    /\ final_id # None

(* C29: with a non-empty buffer a call of next returns the first item and  *)
(* removes it, leaves page_token, previous_token, fin and final_id alone   *)
(* and calls no fetch_page; no future is held while the buffer is          *)
(* non-empty, so none is polled.                                           *)
C29_PopOnly ==
    /\ [](infl # << >> => fetch = None)
    /\ [][(spc = "loop" /\ infl # << >>) =>
            /\ spc' = "idle"
            /\ sres' = [tag |-> "item", item |-> Head(infl)]
            /\ infl' = Tail(infl)
            /\ delivered' = Append(delivered, Head(infl))
            /\ UNCHANGED <<page_token, previous_token, fin, final_id, fetch,
                           flog>>]_vars

(* A call has returned the first item of a page and the second is still in *)
(* the buffer.                                                             *)
C29_Witness ==
    /\ spc = "idle"
    /\ sres.tag = "item"
    /\ sres.item[2] = 1
    /\ infl # << >>
    /\ infl[1][1] = sres.item[1]

(* C30: the step that takes a page with no item and a token leaves the     *)
(* call running and fin false; a call that finds the buffer empty, fin     *)
(* false and no future calls fetch_page with page_token; fin is true only  *)
(* with no page_token, and the end of the sequence is returned only after  *)
(* a page with no token was taken.                                         *)
C30_EmptyPage ==
    /\ [](/\ fin => page_token = None
          /\ (spc = "idle" /\ sres.tag = "end") =>
                /\ Taken # {}
                /\ PageOf(server, flog[LastTaken].pt).next = None)
    /\ [][/\ (PageTaken /\ PageOf(server, page_token).items = << >>
                /\ PageOf(server, page_token).next # None)
            => (spc' = "loop" /\ ~fin')
          /\ (spc = "loop" /\ infl = << >> /\ ~fin /\ fetch = None)
            => (FetchIssued /\ flog'[Len(flog')].pt = page_token)]_vars

(* The first call of next is still running: the first page had no item and *)
(* a token, and the fetch with that token has been started.                *)
C30_Witness ==
    /\ spc = "loop"
    /\ sres.tag = "none"
    /\ server[0] = 0
    /\ Len(flog) = 2
    /\ flog[1].pt = None
    /\ flog[2].pt = Some(1)

----------------------------------------------------------------------------
(* The token gate: GAuth of src/src/gauth.rs, shared by the callers that   *)
(* hold a clone of it.  A caller runs operations one after the other: a    *)
(* call of the API (check_refresh, then access_token, then the request),   *)
(* an exchange, or set_refresh_token.  The server of the token endpoint   *)
(* answers a request with an error or with any token and any lifetime.     *)
(* A caller may be suspended wherever the code awaits and, the callers     *)
(* being threads or tasks of a multi-threaded runtime, wherever it does    *)
(* not hold the lock of inner.                                             *)

MaxCallers == 2
MaxOps == 2
MaxTime == 2

(* The width of expires_in, a u64 in the source, reduced to Bits bits. *)
Bits == 4
U == 2 ^ Bits

(* The last second a SystemTime holds: its seconds are an i64, half the    *)
(* range of the u64.                                                       *)
TimeMax == U \div 2 - 1

Callers == 1..MaxCallers

(* expires_in of the reply of the token endpoint: short lifetimes, the      *)
(* two lifetimes around the first whose double does not fit the integer,   *)
(* and the longest.                                                        *)
Lifetimes == {0, 1, 2, 3, U \div 2 - 1, U \div 2, U - 1}

(* The strings of the tokens: 0 is the empty string. *)
TokenStrings == {0, 1}

(* o.expires_in * 2 overflows the integer. *)
MulOverflows(L) == 2 * L >= U

(* o.expires_in * 2 / 3 where the multiplication wraps. *)
TwoThirds(L) == ((2 * L) % U) \div 3

(* SystemTime::now().checked_add(Duration::from_secs(d)) *)
CheckedAdd(t, d) == IF t + d > TimeMax THEN << >> ELSE <<t + d>>

(* GAuth::new *)
GateInit ==
    /\ refresh_token = 0
    /\ access_token = 0
    /\ expiry = << >>
    /\ now = 0
    /\ build \in {"debug", "release"}
    /\ cpc = [c \in Callers |-> "idle"]
    /\ cet = [c \in Callers |-> << >>]
    /\ clog = [c \in Callers |-> << >>]
    /\ ops = 0
    /\ granted = << >>
    /\ ids = << >>
    /\ mp = << >>
    /\ out = << >>
    /\ idlog = << >>
    /\ pc = "call"
    /\ ret = NoRet
    /\ ParseIdle
    /\ StreamIdle

(* The caller c has no operation running and may start one. *)
Free(c) == cpc[c] \in {"idle", "done"} /\ ops < MaxOps

(* The caller c goes to position p, with the event e added to its log. *)
Goes(c, p, e) ==
    /\ cpc' = [cpc EXCEPT ![c] = p]
    /\ clog' = [clog EXCEPT ![c] = clog[c] \o e]

(* What refresh and exchange do with the reply o of the token endpoint:    *)
(* the expiry is computed, and on success the fields listed in w are       *)
(* written under the lock and the caller goes to position p.               *)
TakeReply(c, o, w, p) ==
    /\ granted' = <<[t |-> now, L |-> o.expires_in]>>
    /\ IF build = "debug" /\ MulOverflows(o.expires_in)
          THEN /\ Goes(c, "panic", << >>)
               /\ UNCHANGED <<refresh_token, access_token, expiry>>
          ELSE LET et == CheckedAdd(now, TwoThirds(o.expires_in)) IN
               IF et = << >>
                  THEN /\ Goes(c, "done", <<"err">>)
                       /\ UNCHANGED <<refresh_token, access_token, expiry>>
                  ELSE /\ refresh_token' = IF "refresh_token" \in w
                                              THEN o.refresh_token
                                              ELSE refresh_token
                       /\ access_token' = o.access_token
                       /\ expiry' = et
                       /\ Goes(c, p.pos, p.event)

(* A caller starts a call of the API: check_refresh is entered. *)
BeginCall(c) ==
    /\ Free(c)
    /\ ops' = ops + 1
    /\ cpc' = [cpc EXCEPT ![c] = "expiry"]
    /\ clog' = [clog EXCEPT ![c] = << >>]
    /\ UNCHANGED <<refresh_token, access_token, expiry, now, build, cet,
                   granted>>
    /\ UNCHANGED <<bvars, pvars, svars>>

(* let et = self.inner.lock().unwrap().expiry; *)
ReadExpiry(c) ==
    /\ cpc[c] = "expiry"
    /\ cet' = [cet EXCEPT ![c] = expiry]
    /\ cpc' = [cpc EXCEPT ![c] = "token"]
    /\ UNCHANGED <<refresh_token, access_token, expiry, now, build, clog, ops,
                   granted>>
    /\ UNCHANGED <<bvars, pvars, svars>>

(* let refresh = if self.inner.lock().unwrap().access_token == "" ... *)
NeedsRefresh(c) ==
    IF access_token = 0 THEN TRUE
    ELSE IF cet[c] # << >> THEN now > cet[c][1]
    ELSE FALSE

(* The decision of check_refresh: refresh() is entered, or Ok(()) is       *)
(* returned.                                                               *)
Decide(c) ==
    /\ cpc[c] = "token"
    /\ IF NeedsRefresh(c)
          THEN Goes(c, "refresh", << >>)
          ELSE Goes(c, "checked", <<"checked">>)
    /\ cet' = [cet EXCEPT ![c] = << >>]
    /\ UNCHANGED <<refresh_token, access_token, expiry, now, build, ops,
                   granted>>
    /\ UNCHANGED <<bvars, pvars, svars>>

(* refresh: the refresh token is read and the request is sent. *)
RefreshSend(c) ==
    /\ cpc[c] = "refresh"
    /\ Goes(c, "refresh_wait", <<"refresh">>)
    /\ UNCHANGED <<refresh_token, access_token, expiry, now, build, cet, ops,
                   granted>>
    /\ UNCHANGED <<bvars, pvars, svars>>

(* RefreshErr in which check_refresh returns Ok(()). *)
RefreshErrIgnored(c) ==
    /\ cpc[c] = "refresh_wait"
    /\ Goes(c, "checked", <<"err">>)
    /\ UNCHANGED <<refresh_token, access_token, expiry, now, build, cet, ops,
                   granted>>
    /\ UNCHANGED <<bvars, pvars, svars>>

(* RefreshErr that forgets the access token. *)
RefreshErrClears(c) ==
    /\ cpc[c] = "refresh_wait"
    /\ Goes(c, "done", <<"err">>)
    /\ access_token' = 0
    /\ UNCHANGED <<refresh_token, expiry, now, build, cet, ops, granted>>
    /\ UNCHANGED <<bvars, pvars, svars>>

(* refresh: the request fails, the status is not 200 or the body is not    *)
(* an RRefresh; check_refresh and the operation return the error.          *)
RefreshErr(c) ==
    /\ cpc[c] = "refresh_wait"
    /\ Goes(c, "done", <<"err">>)
    /\ UNCHANGED <<refresh_token, access_token, expiry, now, build, cet, ops,
                   granted>>
    /\ UNCHANGED <<bvars, pvars, svars>>

(* refresh: the reply is an RRefresh. *)
RefreshOk(c) ==
    /\ cpc[c] = "refresh_wait"
    /\ \E L \in Lifetimes, at \in TokenStrings :
          TakeReply(c, [expires_in |-> L, access_token |-> at], {},
                    [pos |-> "checked", event |-> <<"checked">>])
    /\ UNCHANGED <<now, build, cet, ops>>
    /\ UNCHANGED <<bvars, pvars, svars>>

(* self.auth.access_token() *)
ReadAccess(c) ==
    /\ cpc[c] = "checked"
    /\ Goes(c, "send", <<"read">>)
    /\ UNCHANGED <<refresh_token, access_token, expiry, now, build, cet, ops,
                   granted>>
    /\ UNCHANGED <<bvars, pvars, svars>>

(* client.execute(req) *)
Send(c) ==
    /\ cpc[c] = "send"
    /\ Goes(c, "done", <<"sent">>)
    /\ UNCHANGED <<refresh_token, access_token, expiry, now, build, cet, ops,
                   granted>>
    /\ UNCHANGED <<bvars, pvars, svars>>

(* exchange: the request is sent. *)
ExchangeSend(c) ==
    /\ Free(c)
    /\ ops' = ops + 1
    /\ cpc' = [cpc EXCEPT ![c] = "exchange_wait"]
    /\ clog' = [clog EXCEPT ![c] = << >>]
    /\ UNCHANGED <<refresh_token, access_token, expiry, now, build, cet,
                   granted>>
    /\ UNCHANGED <<bvars, pvars, svars>>

(* exchange: the request fails, the status is not 200 or the body is not   *)
(* an RExchange.                                                           *)
ExchangeErr(c) ==
    /\ cpc[c] = "exchange_wait"
    /\ Goes(c, "done", <<"err">>)
    /\ UNCHANGED <<refresh_token, access_token, expiry, now, build, cet, ops,
                   granted>>
    /\ UNCHANGED <<bvars, pvars, svars>>

(* exchange: the reply is an RExchange. *)
ExchangeOk(c) ==
    /\ cpc[c] = "exchange_wait"
    /\ \E L \in Lifetimes, rt \in TokenStrings, at \in TokenStrings :
          TakeReply(c, [expires_in |-> L, refresh_token |-> rt,
                        access_token |-> at], {"refresh_token"},
                    [pos |-> "done", event |-> <<"exchanged">>])
    /\ UNCHANGED <<now, build, cet, ops>>
    /\ UNCHANGED <<bvars, pvars, svars>>

(* set_refresh_token *)
SetRefreshToken(c) ==
    /\ Free(c)
    /\ ops' = ops + 1
    /\ \E rt \in TokenStrings : refresh_token' = rt
    /\ UNCHANGED <<access_token, expiry, now, build, cpc, cet, clog, granted>>
    /\ UNCHANGED <<bvars, pvars, svars>>

(* A second passes. *)
Tick ==
    /\ now < MaxTime
    /\ now' = now + 1
    /\ UNCHANGED <<refresh_token, access_token, expiry, build, cpc, cet, clog,
                   ops, granted>>
    /\ UNCHANGED <<bvars, pvars, svars>>

GateNext ==
    \/ \E c \in Callers : BeginCall(c)
    \/ \E c \in Callers : ReadExpiry(c)
    \/ \E c \in Callers : Decide(c)
    \/ \E c \in Callers : RefreshSend(c)
    \/ \E c \in Callers : RefreshErr(c)
    \/ \E c \in Callers : RefreshOk(c)
    \/ \E c \in Callers : ReadAccess(c)
    \/ \E c \in Callers : Send(c)
    \/ \E c \in Callers : ExchangeSend(c)
    \/ \E c \in Callers : ExchangeErr(c)
    \/ \E c \in Callers : ExchangeOk(c)
    \/ \E c \in Callers : SetRefreshToken(c)
    \/ Tick

GateSpec == GateInit /\ [][GateNext]_vars

----------------------------------------------------------------------------
(* Vocabulary of the properties of the token gate *)

(* The event e is in the log of the caller c. *)
Logged(c, e) == \E i \in 1..Len(clog[c]) : clog[c][i] = e

(* In the log of c every event e comes after an event f. *)
After(c, e, f) ==
    \A i \in 1..Len(clog[c]) :
        clog[c][i] = e => \E j \in 1..(i - 1) : clog[c][j] = f

(* The callers whose request to refresh the token is with the server. *)
Refreshing == {c \in Callers : cpc[c] = "refresh_wait"}

(* C26: at most one request to refresh the token is with the server at any *)
(* time: a caller that checks the token while another refreshes it waits   *)
(* for the refresh and sends no request of its own.                        *)
C26_OneRefresh == Cardinality(Refreshing) <= 1

(* C27: in every operation the freshness check has returned Ok before the  *)
(* access token is read, and the access token is read before the request   *)
(* is sent; an operation whose check failed has returned the error, and    *)
(* has neither read the token nor sent a request.                          *)
C27_CheckBeforeSend ==
    \A c \in Callers :
        /\ After(c, "read", "checked")
        /\ After(c, "sent", "read")
        /\ cpc[c] \in {"expiry", "token", "refresh", "refresh_wait"}
            => ~Logged(c, "checked") /\ ~Logged(c, "read") /\ ~Logged(c, "sent")
        /\ Logged(c, "err")
            => /\ cpc[c] = "done"
               /\ clog[c][Len(clog[c])] = "err"
               /\ ~Logged(c, "read")
               /\ ~Logged(c, "sent")

(* One caller has sent its request after a refresh of the token, the other *)
(* has returned the error of its refresh.                                  *)
C27_Witness ==
    \E c, d \in Callers :
        /\ clog[c] = <<"refresh", "checked", "read", "sent">>
        /\ clog[d] = <<"refresh", "err">>

(* C28: after a reply of the token endpoint with lifetime L at time t no   *)
(* caller has stopped abnormally and the expiry is t + floor(2 * L / 3).   *)
C28_TwoThirds ==
    granted # << >> =>
        /\ \A c \in Callers : cpc[c] # "panic"
        /\ expiry = <<granted[1].t + (2 * granted[1].L) \div 3>>

----------------------------------------------------------------------------
(* Further properties of the batch call *)

(* C31: in a list of outcomes returned with Ok, the id of the message in   *)
(* every Present outcome is the id the Content-ID of its part named.       *)
C31_PayloadId ==
    ret.tag = "Ok" =>
        \A j \in 1..Len(out) : out[j].v = "Present" => out[j].id = idlog[j]

----------------------------------------------------------------------------
(* Further properties of the streams *)

(* C32: in every state of a stream, fin true means that there is no        *)
(* page_token and no future; a future is held only while the buffer is     *)
(* empty; and no step of the stream makes fin false again.                 *)
C32_CursorInvariant ==
    /\ [](/\ fin => (page_token = None /\ fetch = None)
          /\ fetch # None => infl = << >>)
    /\ [][(fin /\ SameStream) => fin']_vars

(* An async stream has taken its last page: fin is true, there is neither  *)
(* token nor future, and the items of the page are in the buffer.          *)
C32_Witness ==
    /\ api = "async"
    /\ fin
    /\ page_token = None
    /\ fetch = None
    /\ Len(infl) = 2
    /\ Len(flog) = 2

(* C34: until a Messages stream has taken a page, page_token is the token  *)
(* it was started with and every fetch is made with it, and previous_token *)
(* (the value of resume_token()) is None.                                  *)
C34_ResumeStart ==
    /\ []((skind = "Messages" /\ Taken = {})
            => /\ previous_token = None
               /\ \A i \in 1..Len(flog) : flog[i].pt = page_token)
    /\ [][(skind = "Messages" /\ SameStream /\ Taken' = {})
            => page_token' = page_token]_vars

(* A stream started with the token 1 has made a fetch that failed and is   *)
(* making a second: both with the token 1, and resume_token() is None.     *)
C34_Witness ==
    /\ skind = "Messages"
    /\ page_token = Some(1)
    /\ previous_token = None
    /\ Taken = {}
    /\ Len(flog) = 2
    /\ flog[1] = [pt |-> Some(1), st |-> "err"]
    /\ flog[2].pt = Some(1)

----------------------------------------------------------------------------
(* The blocking Messages iterator as a relation between the states a       *)
(* caller of next can tell apart: the fields of the iterator, whether a    *)
(* call is running, and what the last call returned.                       *)

(* What the caller sees of the stream.  A poll that gave Poll::Pending has *)
(* returned nothing yet: for the caller the call is still running.         *)
View ==
    LET waiting == spc = "idle" /\ sres.tag = "pending"
        running == spc = "loop" \/ waiting
    IN  [fin |-> fin,
         previous_token |-> previous_token,
         page_token |-> page_token,
         infl |-> infl,
         spc |-> IF running THEN "loop" ELSE "idle",
         ret |-> IF running THEN [tag |-> "none"] ELSE sres]

(* One step of Messages::next_ of src/src/gmail.rs from v to w: the call,  *)
(* the pop of the front item, the end of the sequence, a fetch_page that   *)
(* fails, and a fetch_page that gives the page of the token.               *)
NextStep(v, w) ==
    \/ /\ v.spc = "idle"
       /\ w = [v EXCEPT !.spc = "loop", !.ret = [tag |-> "none"]]
    \/ /\ v.spc = "loop"
       /\ v.infl # << >>
       /\ w = [v EXCEPT !.infl = Tail(v.infl), !.spc = "idle",
                        !.ret = [tag |-> "item", item |-> Head(v.infl)]]
    \/ /\ v.spc = "loop"
       /\ v.infl = << >>
       /\ v.fin
       /\ w = [v EXCEPT !.spc = "idle", !.ret = [tag |-> "end"]]
    \/ /\ v.spc = "loop"
       /\ v.infl = << >>
       /\ ~v.fin
       /\ w = [v EXCEPT !.spc = "idle", !.ret = [tag |-> "err"]]
    \/ /\ v.spc = "loop"
       /\ v.infl = << >>
       /\ ~v.fin
       /\ LET o == PageOf(server, v.page_token) IN
          w = [v EXCEPT !.previous_token = v.page_token,
                        !.page_token = o.next,
                        !.fin = (o.next = None),
                        !.infl = o.items]

(* The steps of the async stream. *)
PollStep ==
    \/ CallNext
    \/ PopFront
    \/ End
    \/ StartFetch
    \/ Settle
    \/ PollPending
    \/ PollOk
    \/ PollErr

(* C38: every step of a Messages stream, async or blocking, is for the     *)
(* caller a step of the blocking next_ or no step at all (a fetch started  *)
(* or settled, a poll that gave Pending, the poll that follows it), so     *)
(* both pass through the same tokens, fin, buffers and return values; and  *)
(* the async stream can always take a step.                                *)
C38_SameAsBlocking ==
    /\ [][(skind = "Messages" /\ SameStream)
            => (View' = View \/ NextStep(View, View'))]_vars
    /\ []((skind = "Messages" /\ api = "async") => ENABLED PollStep)

(* An async stream has returned an error, then the items of two pages and  *)
(* the end of the sequence.                                                *)
C38_Witness ==
    /\ skind = "Messages"
    /\ api = "async"
    /\ gen = 0
    /\ flog # << >>
    /\ flog[1].st = "err"
    /\ Len(flog) = 3
    /\ Len(delivered) >= 2
    /\ View.ret = [tag |-> "end"]

----------------------------------------------------------------------------
(* Progress of a stream.  The caller keeps calling next and the code of a  *)
(* call runs on: weak fairness of the steps of the caller and the stream,  *)
(* which are the steps of one thread or task.  A fetch that was started    *)
(* settles: weak fairness of Settle.  Only MaxErrs fetches of a stream     *)
(* fail and the listing of the server is finite.                           *)
StreamStep ==
    \/ CallNext
    \/ PopFront
    \/ End
    \/ StartFetch
    \/ PollPending
    \/ PollOk
    \/ PollErr
    \/ FetchPageOk
    \/ FetchPageErr

StreamFair ==
    /\ WF_vars(StreamStep)
    /\ WF_vars(Settle)

(* One stream from its start on. *)
LiveNext == StreamStep \/ Settle

StreamLive == StreamInit /\ [][LiveNext]_vars /\ StreamFair

(* C33: the caller eventually receives the end of the sequence, and has    *)
(* then received the items of the pages taken, each once and in order.     *)
C33_ReachesEnd ==
    <>(/\ spc = "idle"
       /\ sres.tag = "end"
       /\ infl = << >>
       /\ delivered = ItemsTaken(1)
       /\ \A i, j \in 1..Len(delivered) : i # j => delivered[i] # delivered[j])

(* The end of the sequence after two failed fetches and three pages. *)
C33_Witness ==
    /\ spc = "idle"
    /\ sres.tag = "end"
    /\ Errs = 2
    /\ Cardinality(Taken) = 3
    /\ delivered = ItemsTaken(1)
    /\ delivered # << >>

----------------------------------------------------------------------------
(* Further properties of the token gate *)

(* The caller c leaves refresh() with an error in this step. *)
RefreshFails(c) == cpc[c] = "refresh_wait" /\ cpc'[c] = "done"

(* The caller c leaves refresh() with Ok(()) in this step. *)
RefreshSucceeds(c) == cpc[c] = "refresh_wait" /\ cpc'[c] = "checked"

(* C35: a refresh that fails returns an error and leaves access_token,     *)
(* expiry and refresh_token as they were; a refresh that succeeds writes   *)
(* access_token and expiry in one step, the expiry computed from the reply *)
(* and the clock, and leaves refresh_token as it was; no other step of a   *)
(* refresh writes any of the three.                                        *)
C35_RefreshWrites ==
    [][\A c \in Callers :
        /\ RefreshFails(c) =>
            /\ clog'[c][Len(clog'[c])] = "err"
            /\ UNCHANGED <<access_token, expiry, refresh_token>>
        /\ RefreshSucceeds(c) =>
            /\ refresh_token' = refresh_token
            /\ access_token' \in TokenStrings
            /\ granted' # << >>
            /\ expiry' = CheckedAdd(now, TwoThirds(granted'[1].L))
            /\ expiry' # << >>
        /\ (cpc[c] \in {"refresh", "refresh_wait"} /\ cpc'[c] # cpc[c]
                /\ ~RefreshSucceeds(c)) =>
            UNCHANGED <<access_token, expiry, refresh_token>>]_vars

(* The refresh of an expired token has failed: the caller has the error    *)
(* and the token, its expiry and the refresh token are still there.        *)
C35_Witness ==
    \E c \in Callers :
        /\ clog[c] = <<"refresh", "err">>
        /\ access_token # 0
        /\ refresh_token # 0
        /\ expiry # << >>
        /\ now > expiry[1]

(* C36: check_refresh never finds a non-empty access token together with   *)
(* no expiry: when it decides, the token is empty or the expiry it read is *)
(* Some.                                                                   *)
C36_ExpiryKnown ==
    \A c \in Callers : cpc[c] = "token" => (access_token = 0 \/ cet[c] # << >>)

----------------------------------------------------------------------------
(* Further properties of multipart_parse *)

(* The header line x holds no ':'. *)
NoColon(x) == \A k \in 1..Len(x) : x[k] # 58

(* C37: when the header block of a part has been read to its end and one   *)
(* of its lines holds no ':', the function returns an error value.         *)
C37_NoColonIsError ==
    (mpc = "done" /\ pstate = "Body" /\ \E i \in 1..Len(hdrs) : NoColon(hdrs[i]))
        => mres.tag = "err"


(* The samples the first loop passes to follows. *)
Samples == {Start(boundary), CrlfStart(boundary), Inter(boundary), DASHDASH, CRLF}

(* C39: at every position of the first loop and for every sample, follows  *)
(* gives true exactly when the bytes of the buffer from the position on    *)
(* are the sample.                                                         *)
C39_FollowsExact ==
    mpc = "scan" =>
        \A s \in Samples : Follows(data, pos, s) <=> At(data, pos, s)

====
